---- MODULE Spec2Model ----
(***************************************************************************)
(* A model of copilot_cli: the orchestrator's dependency scheduler over    *)
(* its two transports (orchestrator.py), the reference-counted session     *)
(* pool (client.py, SessionPool), and of one CopilotClient (client.py) the *)
(* request ids and send_request, the document versions, the handling of    *)
(* server-to-client requests, the progress collection and the framing of   *)
(* messages (with the newline framing of mcp.py); the client-side MCP      *)
(* tools and the sanitising of their schemas (mcp.py), the result of       *)
(* invokeClientTool (client.py), the soft validation of answers            *)
(* (schema_validation.py), the extraction of JSON from a reply and the     *)
(* turns of a worker (mcp_agent.py, orchestrator.py), the LSP bridge       *)
(* (lsp_bridge.py) and one call of Orchestrator.run.                       *)
(*                                                                         *)
(* Each part has its own specification (SpecOrch, SpecPool, SpecIds,       *)
(* SpecSession, SpecDocs, SpecHandler, SpecCollect, SpecCodec, SpecMcp,    *)
(* SpecSan, SpecWrap, SpecValid, SpecExtract, SpecTask, SpecLsp, SpecRun,  *)
(* SpecQueueWorker, SpecPlan, SpecFour, SpecPoolDirect, SpecPoolFaults,    *)
(* SpecTools, SpecMcpServer);                                              *)
(* the variables of the other parts keep their initial values under it.    *)
(***************************************************************************)
EXTENDS Integers, Sequences, FiniteSets, TLC

VARIABLES
    \* ---- Orchestrator._execute_mcp / _execute_queue ----
    transport,      \* Orchestrator.transport: "mcp" or "queue"
    tasks,          \* the plan: index -> [worker_role, depends_on]
    context,        \* the caller's context argument of run() (a dict)
    workers,        \* roles that have a worker (_mcp_workers / _worker_inboxes)
    pc,             \* position of the scheduler thread
    completed,      \* completed: index -> [status, result]
    pending,        \* pending: set of indices
    running,        \* MCP: live _run_task threads, index -> [c, role]
    threads,        \* MCP: the threads list of the current round
    inbox,          \* queue: role -> sequence of task_assign messages
    resultQueue,    \* queue: Orchestrator._result_queue
    wstate,         \* queue: role -> position of the worker thread
    wmsg,           \* queue: role -> the task_assign message being handled
    wprog,          \* queue: role -> progress messages posted for that task
    results,        \* the list returned by the scheduler
    \* ---- SessionPool ----
    poolClients,    \* SessionPool._clients: workspace -> client
    poolRefcounts,  \* SessionPool._refcounts: workspace -> count
    started,        \* the clients whose subprocess was spawned
    stops,          \* client -> number of CopilotClient.stop() calls on it
    preps,          \* client -> number of agent-mode preparations of it
    poolAgentMode,  \* client -> its _pool_agent_mode attribute
    cpc,            \* caller -> position inside acquire
    cmode,          \* caller -> agent_mode argument of its acquire in progress
    clocal,         \* caller -> the local variable client of its acquire
    held,           \* caller -> clients returned to it and not yet released
    returned,       \* caller -> [client, agent_mode] of its last acquire
    calls,          \* caller -> the calls it has completed, in order
    extra,          \* number of releases not paired with an acquire
    acquires,       \* number of acquire calls begun
    \* ---- one CopilotClient shared by several threads ----
    request_id,     \* CopilotClient.request_id
    responses,      \* CopilotClient._responses: id -> the request it answers
    wire,           \* the ids of the requests written to the server's stdin
    answered,       \* how many requests on the wire the server has answered
    spc,            \* sender -> position inside send_request
    sreg,           \* sender -> the request_id value it loaded for += 1
    smsg,           \* sender -> msg_id of its send_request
    sgot,           \* sender -> outcomes of its finished send_request calls
    sown,           \* sender -> position on the wire of its request in flight
    alive,          \* whether the server subprocess is running
    \* ---- the documents of one CopilotClient ----
    doc_versions,   \* CopilotClient._doc_versions: uri -> version
    notifs,         \* the didOpen / didChange notifications sent, in order
    \* ---- the server-to-client requests of one CopilotClient ----
    pending_server_requests, \* CopilotClient._pending_server_requests
    hpc,            \* position of the _request_handler thread
    hreqs,          \* its local list reqs, the part not yet handled
    received,       \* the server requests the reader has routed, in order
    stdin,          \* the frames written to process.stdin, with their writer
    mcp_stdin,       \* the lines written to an MCPServer's stdin, with their writer
    \* ---- _collect_chat_reply of one CopilotClient ----
    progress,       \* CopilotClient._progress: token -> list of updates
    arrived,        \* token -> the updates the reader has routed, in order
    kpc,            \* position of the collecting thread
    timeout,        \* the timeout argument, in tenths of a second
    now,            \* time.time() - start, in tenths of a second
    last_activity,  \* last_activity - start, in tenths of a second
    is_done,        \* the local variable done
    reply_parts,    \* "".join(reply_parts)
    shortSleeps,     \* number of sleeps that took 0.1 s
    \* ---- the framing of one connection ----
    codec,          \* "content-length" (CopilotClient, LSPServer) or "newline" (MCPServer)
    input,          \* the frames the peer has written, in order
    pipe,           \* the bytes written by the peer and not yet read
    buffer,         \* self._buffer of the reader
    routed,         \* the messages decoded and routed, in order
    reader,          \* "running", or "dead" once the reader thread has ended
    \* ---- ClientMCPManager and the tools registered with the session ----
    servers,        \* ClientMCPManager.servers, in order: [name, tools]
    tool_map,       \* ClientMCPManager._tool_map: prefixed name -> <<server, tool>>
    registered,      \* the names of the tools of the last conversation/registerTools
    \* schema sanitising (mcp.py)
    input_schema,   \* the inputSchema dict of one discovered MCP tool
    sanitized,       \* the inputSchema sent by each pass of get_tool_schemas
    \* ---- conversation/invokeClientTool (client.py) ----
    tool_handler,   \* "alive", or "dead" once an exception has left the handler
    tool_responses,  \* the results passed to _send_response, in order
    \* ---- soft validation (schema_validation.py) ----
    vpc,            \* "start", "validated", "built", "revalidated"
    candidate,      \* the data given to soft_validate
    answer_schema,  \* the schema: its fields in order, [name, def]
    validation,     \* the result of soft_validate(candidate, schema)
    answer,         \* build_answer_from_validation(validation)
    revalidation,    \* the result of soft_validate(answer, schema)
    \* ---- _extract_json_from_reply (mcp_agent.py) ----
    reply_obj,      \* the JSON value written into the reply
    reply_format,   \* how it was written: one of ReplyFormats, or "start"
    reply_text,          \* the reply text, a sequence of characters
    extracted,       \* what _extract_json_from_reply(reply) returned
    \* ---- the turns of one worker (mcp_agent.py, orchestrator.py) ----
    worker_kind,    \* "mcp" (MCPAgentServer) or "queue" (WorkerThread)
    card,           \* the worker's card / config: system_prompt, answer_schema
    conversation_id,  \* _conversation_id: 0 for None
    task_log,        \* per task: the parts of the prompt, the outcome, the response
    \* ---- the LSP bridge (lsp_bridge.py) ----
    lsp_env,        \* per language: what the configured command does when run
    _servers,       \* LSPBridgeManager._servers: language -> the server's state
    lsp_calls,       \* the calls made so far: operation, condition, returned value
    \* ---- one call of Orchestrator.run (orchestrator.py) ----
    upstream,       \* the subprocess of the orchestrator's own client
    run_pc,         \* where run is: "idle", "planning", "executing", "returned", "raised"
    run_result,      \* what run returned or raised
    \* ---- one QueueWorker thread (orchestrator.py) ----
    qw_pc,          \* where _run_loop is: init, check, get, task, exited
    qw_inbox,       \* the messages in the worker's inbox
    qw_outbox,      \* the messages the worker has put into its outbox
    qw_running,     \* QueueWorker._running
    qw_msg,         \* the task_assign _handle_task is working on
    qw_progress,    \* the deltas on_progress has forwarded for that task
    qw_taken,       \* the messages inbox.get has returned, in order
    qw_session,     \* the worker's client: "none", "held" or "released"
    qw_assigned,    \* how many task_assign messages have been put
    qw_stopped,      \* whether stop() has been called
    \* ---- the validation of the planning reply (orchestrator.py) ----
    plan_parsed,    \* what json.loads gave for the extracted text of the reply
    plan_pc,        \* "parsed" before the validation loop, "returned" or "raised" after
    plan_validated,  \* what _plan_tasks returned or raised
    \* ---- clients made with shared=False next to the pool (client.py) ----
    unpooled,       \* caller -> the client _init_client(shared=False) gave it
    directReleased,  \* the unpooled clients passed to release_client
    \* ---- the tool registry of the process and its queue workers ----
    TOOL_SCHEMAS,   \* the names in copilot_cli.tools.TOOL_SCHEMAS
    TOOL_EXECUTORS, \* the names in copilot_cli.tools.TOOL_EXECUTORS
    tools_enabled,  \* worker -> its config.tools_enabled
    tw_pc,          \* worker -> where its _init_client is
    tw_todo,        \* worker -> the names its current deletion loop has yet to visit
    tw_registered,  \* worker -> the tools its client registered
    tw_found,        \* worker -> the tools whose executor its client has looked up and found
    \* ---- one MCPServer shared by the _run_task threads of a round (mcp.py) ----
    ms_request_id,  \* MCPServer._request_id
    ms_responses,   \* MCPServer._responses: id -> the task whose request the response answers
    ms_wire,        \* the tools/call requests written to the agent's stdin: [id, task]
    ms_answered,    \* how many requests on the wire the agent has answered
    ms_pc,          \* task -> where its _run_task thread is
    ms_reg,         \* task -> the value _next_id loaded
    ms_id,          \* task -> msg_id of its send_request
    ms_completed    \* task -> what _run_task stored in completed for it

orchVars == <<transport, tasks, context, workers, pc, completed, pending,
              running, threads, inbox, resultQueue, wstate, wmsg, wprog,
              results>>

poolVars == <<poolClients, poolRefcounts, started, stops, preps,
              poolAgentMode, cpc, cmode, clocal, held, returned, calls, extra,
              acquires>>

clientVars == <<request_id, responses, wire, answered, spc, sreg, smsg, sgot,
                sown, alive>>

docVars == <<doc_versions, notifs>>

handlerVars == <<pending_server_requests, hpc, hreqs, received, stdin, mcp_stdin>>

collectVars == <<progress, arrived, kpc, timeout, now, last_activity, is_done, reply_parts, shortSleeps>>

codecVars == <<codec, input, pipe, buffer, routed, reader>>

mcpVars == <<servers, tool_map, registered>>

sanVars == <<input_schema, sanitized>>

wrapVars == <<tool_handler, tool_responses>>

validVars == <<vpc, candidate, answer_schema, validation, answer, revalidation>>

extractVars == <<reply_obj, reply_format, reply_text, extracted>>

taskVars == <<worker_kind, card, conversation_id, task_log>>

lspVars == <<lsp_env, _servers, lsp_calls>>

runVars == <<upstream, run_pc, run_result>>

queueWorkerVars == <<qw_pc, qw_inbox, qw_outbox, qw_running, qw_msg, qw_progress, qw_taken, qw_session, qw_assigned, qw_stopped>>

planVars == <<plan_parsed, plan_pc, plan_validated>>

directVars == <<unpooled, directReleased>>

toolVars == <<TOOL_SCHEMAS, TOOL_EXECUTORS, tools_enabled, tw_pc, tw_todo, tw_registered, tw_found>>

mcpServerVars == <<ms_request_id, ms_responses, ms_wire, ms_answered, ms_pc, ms_reg, ms_id, ms_completed>>

vars == <<orchVars, poolVars, clientVars, docVars, handlerVars, collectVars, codecVars, mcpVars, sanVars, wrapVars, validVars, extractVars, taskVars, lspVars, runVars, queueWorkerVars, planVars, directVars, toolVars, mcpServerVars>>

\* What the actions of one part leave alone: the variables of the other parts.
notOrchVars == <<poolVars, clientVars, docVars, handlerVars, collectVars, codecVars, mcpVars, sanVars, wrapVars, validVars, extractVars, taskVars, lspVars, runVars, queueWorkerVars, planVars, directVars, toolVars, mcpServerVars>>
notPoolVars == <<orchVars, clientVars, docVars, handlerVars, collectVars, codecVars, mcpVars, sanVars, wrapVars, validVars, extractVars, taskVars, lspVars, runVars, queueWorkerVars, planVars, directVars, toolVars, mcpServerVars>>
notClientVars == <<orchVars, poolVars, docVars, handlerVars, collectVars, codecVars, mcpVars, sanVars, wrapVars, validVars, extractVars, taskVars, lspVars, runVars, queueWorkerVars, planVars, directVars, toolVars, mcpServerVars>>
notDocVars == <<orchVars, poolVars, clientVars, handlerVars, collectVars, codecVars, mcpVars, sanVars, wrapVars, validVars, extractVars, taskVars, lspVars, runVars, queueWorkerVars, planVars, directVars, toolVars, mcpServerVars>>
notHandlerVars == <<orchVars, poolVars, clientVars, docVars, collectVars, codecVars, mcpVars, sanVars, wrapVars, validVars, extractVars, taskVars, lspVars, runVars, queueWorkerVars, planVars, directVars, toolVars, mcpServerVars>>
notCollectVars == <<orchVars, poolVars, clientVars, docVars, handlerVars, codecVars, mcpVars, sanVars, wrapVars, validVars, extractVars, taskVars, lspVars, runVars, queueWorkerVars, planVars, directVars, toolVars, mcpServerVars>>
notCodecVars == <<orchVars, poolVars, clientVars, docVars, handlerVars, collectVars, mcpVars, sanVars, wrapVars, validVars, extractVars, taskVars, lspVars, runVars, queueWorkerVars, planVars, directVars, toolVars, mcpServerVars>>
notMcpVars == <<orchVars, poolVars, clientVars, docVars, handlerVars, collectVars, codecVars, sanVars, wrapVars, validVars, extractVars, taskVars, lspVars, runVars, queueWorkerVars, planVars, directVars, toolVars, mcpServerVars>>
notSanVars == <<orchVars, poolVars, clientVars, docVars, handlerVars, collectVars, codecVars, mcpVars, wrapVars, validVars, extractVars, taskVars, lspVars, runVars, queueWorkerVars, planVars, directVars, toolVars, mcpServerVars>>
notWrapVars == <<orchVars, poolVars, clientVars, docVars, handlerVars, collectVars, codecVars, mcpVars, sanVars, validVars, extractVars, taskVars, lspVars, runVars, queueWorkerVars, planVars, directVars, toolVars, mcpServerVars>>
notValidVars == <<orchVars, poolVars, clientVars, docVars, handlerVars, collectVars, codecVars, mcpVars, sanVars, wrapVars, extractVars, taskVars, lspVars, runVars, queueWorkerVars, planVars, directVars, toolVars, mcpServerVars>>
notExtractVars == <<orchVars, poolVars, clientVars, docVars, handlerVars, collectVars, codecVars, mcpVars, sanVars, wrapVars, validVars, taskVars, lspVars, runVars, queueWorkerVars, planVars, directVars, toolVars, mcpServerVars>>
notTaskVars == <<orchVars, poolVars, clientVars, docVars, handlerVars, collectVars, codecVars, mcpVars, sanVars, wrapVars, validVars, extractVars, lspVars, runVars, queueWorkerVars, planVars, directVars, toolVars, mcpServerVars>>
notLspVars == <<orchVars, poolVars, clientVars, docVars, handlerVars, collectVars, codecVars, mcpVars, sanVars, wrapVars, validVars, extractVars, taskVars, runVars, queueWorkerVars, planVars, directVars, toolVars, mcpServerVars>>
notRunVars == <<orchVars, poolVars, clientVars, docVars, handlerVars, collectVars, codecVars, mcpVars, sanVars, wrapVars, validVars, extractVars, taskVars, lspVars, queueWorkerVars, planVars, directVars, toolVars, mcpServerVars>>
notQueueWorkerVars == <<orchVars, poolVars, clientVars, docVars, handlerVars, collectVars, codecVars, mcpVars, sanVars, wrapVars, validVars, extractVars, taskVars, lspVars, runVars, planVars, directVars, toolVars, mcpServerVars>>
notPlanVars == <<orchVars, poolVars, clientVars, docVars, handlerVars, collectVars, codecVars, mcpVars, sanVars, wrapVars, validVars, extractVars, taskVars, lspVars, runVars, queueWorkerVars, directVars, toolVars, mcpServerVars>>
notDirectVars == <<orchVars, poolVars, clientVars, docVars, handlerVars, collectVars, codecVars, mcpVars, sanVars, wrapVars, validVars, extractVars, taskVars, lspVars, runVars, queueWorkerVars, planVars, toolVars, mcpServerVars>>
notPoolDirectVars == <<orchVars, clientVars, docVars, handlerVars, collectVars, codecVars, mcpVars, sanVars, wrapVars, validVars, extractVars, taskVars, lspVars, runVars, queueWorkerVars, planVars, toolVars, mcpServerVars>>
notToolVars == <<orchVars, poolVars, clientVars, docVars, handlerVars, collectVars, codecVars, mcpVars, sanVars, wrapVars, validVars, extractVars, taskVars, lspVars, runVars, queueWorkerVars, planVars, directVars, mcpServerVars>>
notMcpServerVars == <<orchVars, poolVars, clientVars, docVars, handlerVars, collectVars, codecVars, mcpVars, sanVars, wrapVars, validVars, extractVars, taskVars, lspVars, runVars, queueWorkerVars, planVars, directVars, toolVars>>

--------------------------------------------------------------------------
\* Bounds of the model.

\* The longest plan explored.
MaxTasks == 2

\* The most task_progress messages one queue worker posts for one task.
MaxProgress == 1

\* The number of concurrent callers of the session pool.
NumCallers == 2

\* The most acquire calls made on the pool in one behaviour.
MaxAcquires == 3

\* The most release calls that are not paired with an acquire.
MaxExtra == 1

\* The number of threads that share one CopilotClient.
NumSenders == 2

\* The most send_request calls one thread makes.
MaxSends == 2

\* The most document notifications one client sends.
MaxNotifs == 5

--------------------------------------------------------------------------
\* The configured worker roles (Orchestrator.worker_configs).
Roles == {"coder", "reviewer"}

\* A dict with no entry.
EmptyDict == <<>>

\* The callers of the session pool, and the one workspace they share.
Callers == 1 .. NumCallers
Workspace == "/ws"

\* No client: None.
NoClient == 0

\* The threads that share one CopilotClient.
Senders == 1 .. NumSenders

\* The two transports.
Transports == {"mcp", "queue"}

\* Message types of the queue transport.
MSG_TASK_ASSIGN == "task_assign"
MSG_TASK_RESULT == "task_result"
MSG_TASK_PROGRESS == "task_progress"

\* No message.
NoMsg == [type |-> "none"]

\* The indices of a plan of n tasks.
Indices(n) == 0 .. (n - 1)

\* The depends_on lists of a plan of n tasks: any set of indices of the plan
\* (the task itself and later tasks included), or the index n, out of range.
DepSets(n) == (SUBSET Indices(n)) \cup {{n}}

\* All plans of n tasks.
PlansOf(n) == [Indices(n) -> [worker_role : Roles, depends_on : DepSets(n)]]

\* The caller's context argument: a dict that already holds a result_from_ key.
CallerContexts == {"result_from_coder_task_0" :> "stale"}

NumTasks == Cardinality(DOMAIN tasks)

\* depends_on of task idx: tasks[idx].get("depends_on", []).
DependsOn(idx) == tasks[idx].depends_on

\* The reply text and the error text a worker produces for task idx.
ReplyText(idx) == "reply" \o ToString(idx)
ErrorText(idx) == "boom" \o ToString(idx)

--------------------------------------------------------------------------
\* Pure helpers of the scheduler.

\* The key under which the result of dependency dep_idx is handed on.
ContextKey(dep_role, dep_idx) ==
    "result_from_" \o dep_role \o "_task_" \o ToString(dep_idx)

\* A scheduler that takes a task as ready once any one dependency is done.
ReadySetAnyDep(pend, comp) ==
    {idx \in pend : DependsOn(idx) \subseteq Indices(NumTasks)
                     /\ (DependsOn(idx) = {}
                         \/ \E d \in DependsOn(idx) : d \in DOMAIN comp)}

\* A scheduler that takes at most three tasks into one round.
ReadySetThree(pend, comp) ==
    {idx \in pend : (\A d \in DependsOn(idx) : d \in DOMAIN comp)
                     /\ Cardinality({j \in pend : j < idx}) < 3}

\* ready = [idx for idx in pending if all(d in completed for d in depends_on)].
ReadySet(pend, comp) ==
    {idx \in pend : \A d \in DependsOn(idx) : d \in DOMAIN comp}

\* A scheduler that reads a key the completed entry does not hold.
DepResultWrongKey(comp, dep_idx) == ""

\* dep_result.get("result", "") for the entry of dep_idx in completed.
DepResult(comp, dep_idx) ==
    IF dep_idx \in DOMAIN comp THEN comp[dep_idx].result ELSE ""

\* dep_context = dict(context or {}); then one key per dependency, overwriting.
RECURSIVE AddDeps(_, _, _)
AddDeps(ctx, deps, comp) ==
    IF deps = {} THEN ctx
    ELSE LET d == CHOOSE x \in deps : \A y \in deps : x <= y
             k == ContextKey(tasks[d].worker_role, d)
             rest == [x \in (DOMAIN ctx) \ {k} |-> ctx[x]]
         IN  AddDeps((k :> DepResult(comp, d)) @@ rest, deps \ {d}, comp)

DepContext(idx, comp) == AddDeps(context, DependsOn(idx), comp)

\* str(result) of the reply dict an MCP agent returns when its task raised:
\* {"status": "error", "error": str(e), "worker": role}.
PyStrErrorDict(err, role) ==
    "{'status': 'error', 'error': '" \o err \o "', 'worker': '" \o role \o "'}"

\* The record _run_task stores for a reply dict of the worker:
\* status = result.get("status", "success"), result = result.get("reply", str(result)).
RunTaskRecord(reply, role) ==
    [status |-> reply.status,
     result |-> IF reply.has_reply THEN reply.reply
                ELSE PyStrErrorDict(reply.error, role)]

\* What MCPWorker.execute_task can return for task idx: the agent's success
\* dict, or the agent's error dict, which holds no "reply" key.
AgentReplies(idx) ==
    {[status |-> "success", has_reply |-> TRUE, reply |-> ReplyText(idx), error |-> ""],
     [status |-> "error", has_reply |-> FALSE, reply |-> "", error |-> ErrorText(idx)]}

\* The skipped record used for a task with no entry in completed.
SkippedRecord == [status |-> "skipped", result |-> "Not executed"]

\* A results list numbered from 1.
BuildResultsFromOne(comp) ==
    [i \in Indices(NumTasks) |->
        LET r == IF i \in DOMAIN comp THEN comp[i] ELSE SkippedRecord
        IN  [index |-> i + 1, worker_role |-> tasks[i].worker_role,
             status |-> r.status, result |-> r.result]]

\* The results list: one record per task, in task order.
BuildResults(comp) ==
    [i \in Indices(NumTasks) |->
        LET r == IF i \in DOMAIN comp THEN comp[i] ELSE SkippedRecord
        IN  [index |-> i, worker_role |-> tasks[i].worker_role,
             status |-> r.status, result |-> r.result]]

--------------------------------------------------------------------------
\* Initial state of one run of the scheduler.

\* The roles that have a worker once start() has returned.  _start_mcp_workers
\* registers a worker only if its start() did not raise; _start_queue_workers
\* creates an inbox for every configured role.
StartedWorkers(t) == IF t = "mcp" THEN SUBSET Roles ELSE {Roles}

\* The pool before any call.
\* A CopilotClient after __init__, no thread inside send_request.
ClientAtRest ==
    /\ request_id = 0
    /\ responses = EmptyDict
    /\ wire = <<>>
    /\ answered = 0
    /\ spc = [t \in Senders |-> "idle"]
    /\ sreg = [t \in Senders |-> 0]
    /\ smsg = [t \in Senders |-> 0]
    /\ sgot = [t \in Senders |-> <<>>]
    /\ sown = [t \in Senders |-> 0]
    /\ alive = TRUE

\* A CopilotClient with no document opened.
DocsAtRest ==
    /\ doc_versions = EmptyDict
    /\ notifs = <<>>

\* A started CopilotClient and a started MCPServer before any server request.
HandlerAtRest ==
    /\ pending_server_requests = <<>>
    /\ hpc = "poll"
    /\ hreqs = <<>>
    /\ received = <<>>
    /\ stdin = <<>>
    /\ mcp_stdin = <<>>

\* The workDoneTokens of two conversations; the first is being collected.
Tokens == {"copilot-chat-1", "copilot-chat-2"}

\* A CopilotClient with no progress received and no collection running.
CollectAtRest ==
    /\ progress = [k \in Tokens |-> <<>>]
    /\ arrived = [k \in Tokens |-> <<>>]
    /\ kpc = "none"
    /\ timeout = 600
    /\ now = 0
    /\ last_activity = 0
    /\ is_done = FALSE
    /\ reply_parts = ""
    /\ shortSleeps = 0

\* A connection on which nothing was written.
CodecAtRest ==
    /\ codec = "newline"
    /\ input = <<>>
    /\ pipe = <<>>
    /\ buffer = <<>>
    /\ routed = <<>>
    /\ reader = "running"

\* A ClientMCPManager after __init__; nothing registered.
McpAtRest ==
    /\ servers = <<>>
    /\ tool_map = EmptyDict
    /\ registered = <<>>

SanAtRest == input_schema = <<>> /\ sanitized = <<>>

WrapAtRest == tool_handler = "alive" /\ tool_responses = <<>>

NoValidation == [parsed |-> <<>>, extras |-> <<>>, missing |-> <<>>, warnings |-> <<>>,
                 raw |-> [kind |-> "none"], raised |-> "not called"]

ValidAtRest ==
    /\ vpc = "start" /\ candidate = [kind |-> "none"] /\ answer_schema = <<>>
    /\ validation = NoValidation /\ answer = <<>> /\ revalidation = NoValidation

NotExtracted == [found |-> FALSE, mode |-> 0, v |-> [kind |-> "none"]]

ExtractAtRest ==
    /\ reply_obj = [kind |-> "none"] /\ reply_format = "start"
    /\ reply_text = <<>> /\ extracted = NotExtracted

TaskAtRest ==
    /\ worker_kind = "mcp" /\ card = [system_prompt |-> FALSE, answer_schema |-> <<>>]
    /\ conversation_id = 0 /\ task_log = <<>>

LspAtRest ==
    /\ lsp_env = <<>> /\ _servers = <<>> /\ lsp_calls = <<>>

RunAtRest ==
    /\ upstream = "running" /\ run_pc = "idle" /\ run_result = [kind |-> "none"]

QueueWorkerAtRest ==
    /\ qw_pc = "exited" /\ qw_inbox = <<>> /\ qw_outbox = <<>> /\ qw_running = FALSE
    /\ qw_msg = [type |-> "none"] /\ qw_progress = 0 /\ qw_taken = <<>>
    /\ qw_session = "none" /\ qw_assigned = 0 /\ qw_stopped = FALSE

PlanAtRest ==
    /\ plan_parsed = [kind |-> "none"] /\ plan_pc = "returned"
    /\ plan_validated = [kind |-> "none"]

DirectAtRest ==
    /\ unpooled = [t \in 1 .. NumCallers |-> 0]
    /\ directReleased = {}

ToolsAtRest ==
    /\ TOOL_SCHEMAS = {} /\ TOOL_EXECUTORS = {}
    /\ tools_enabled = [w \in 1 .. 2 |-> [all |-> TRUE, names |-> {}]]
    /\ tw_pc = [w \in 1 .. 2 |-> "ready"]
    /\ tw_todo = [w \in 1 .. 2 |-> {}]
    /\ tw_registered = [w \in 1 .. 2 |-> {}]
    /\ tw_found = [w \in 1 .. 2 |-> {}]

McpServerAtRest ==
    /\ ms_request_id = 0 /\ ms_responses = <<>> /\ ms_wire = <<>> /\ ms_answered = 0
    /\ ms_pc = [i \in 0 .. 1 |-> "done"]
    /\ ms_reg = [i \in 0 .. 1 |-> 0]
    /\ ms_id = [i \in 0 .. 1 |-> 0]
    /\ ms_completed = [i \in 0 .. 1 |-> [status |-> "none", reply_to |-> -1]]

PoolAtRest ==
    /\ poolClients = EmptyDict
    /\ poolRefcounts = EmptyDict
    /\ started = {}
    /\ stops = EmptyDict
    /\ preps = EmptyDict
    /\ poolAgentMode = EmptyDict
    /\ cpc = [t \in Callers |-> "idle"]
    /\ cmode = [t \in Callers |-> FALSE]
    /\ clocal = [t \in Callers |-> NoClient]
    /\ held = [t \in Callers |-> <<>>]
    /\ returned = [t \in Callers |-> [client |-> NoClient, agent_mode |-> FALSE]]
    /\ calls = [t \in Callers |-> <<>>]
    /\ extra = 0
    /\ acquires = 0

InitOrch ==
    /\ PoolAtRest
    /\ ClientAtRest
    /\ McpServerAtRest
    /\ ToolsAtRest
    /\ DirectAtRest
    /\ PlanAtRest
    /\ QueueWorkerAtRest
    /\ RunAtRest
    /\ LspAtRest
    /\ TaskAtRest
    /\ ExtractAtRest
    /\ ValidAtRest
    /\ WrapAtRest
    /\ SanAtRest
    /\ McpAtRest
    /\ CodecAtRest
    /\ CollectAtRest
    /\ HandlerAtRest
    /\ DocsAtRest
    /\ transport \in Transports
    /\ \E n \in 0 .. MaxTasks : tasks \in PlansOf(n)
    /\ context \in CallerContexts
    /\ workers \in StartedWorkers(transport)
    /\ pc = "loop"
    /\ completed = EmptyDict
    /\ pending = DOMAIN tasks
    /\ running = EmptyDict
    /\ threads = {}
    /\ inbox = [r \in Roles |-> <<>>]
    /\ resultQueue = <<>>
    /\ wstate = [r \in Roles |->
                   IF transport = "queue" /\ r \in workers THEN "init" ELSE "none"]
    /\ wmsg = [r \in Roles |-> NoMsg]
    /\ wprog = [r \in Roles |-> 0]
    /\ results = <<>>

--------------------------------------------------------------------------
\* MCP transport.

\* completed after the no-worker branch of the dispatch loop for the round.
NoWorkerEntries(ready, comp) ==
    [i \in (DOMAIN comp) \cup {j \in ready : tasks[j].worker_role \notin workers} |->
        IF i \in DOMAIN comp THEN comp[i]
        ELSE [status |-> "error",
              result |-> "No MCP worker for role: " \o tasks[i].worker_role]]

\* One iteration of `while pending` up to the joins: compute ready, leave the
\* loop when nothing is ready, else start one thread per ready task.
McpRound ==
    /\ transport = "mcp" /\ pc = "loop" /\ pending # {}
    /\ LET ready == ReadySet(pending, completed)
           spawned == {i \in ready : tasks[i].worker_role \in workers}
       IN  IF ready = {}
           THEN /\ pc' = "build"
                /\ UNCHANGED <<pending, completed, running, threads>>
           ELSE /\ pending' = pending \ ready
                /\ completed' = NoWorkerEntries(ready, completed)
                /\ running' = [i \in (DOMAIN running) \cup spawned |->
                                 IF i \in spawned
                                 THEN [c |-> DepContext(i, completed),
                                       role |-> tasks[i].worker_role]
                                 ELSE running[i]]
                /\ threads' = spawned
                /\ pc' = "join"
    /\ UNCHANGED notOrchVars
    /\ UNCHANGED <<transport, tasks, context, workers, inbox, resultQueue,
                   wstate, wmsg, wprog, results>>

\* _run_task: the worker returned a reply dict.
RunTaskReply(i) ==
    /\ i \in DOMAIN running
    /\ \E reply \in AgentReplies(i) :
          completed' = (i :> RunTaskRecord(reply, running[i].role)) @@ completed
    /\ running' = [j \in (DOMAIN running) \ {i} |-> running[j]]
    /\ UNCHANGED notOrchVars
    /\ UNCHANGED <<transport, tasks, context, workers, pc, pending, threads,
                   inbox, resultQueue, wstate, wmsg, wprog, results>>

\* _run_task: execute_task raised (the tools/call timed out).
RunTaskRaise(i) ==
    /\ i \in DOMAIN running
    /\ completed' = (i :> [status |-> "error", result |-> ErrorText(i)]) @@ completed
    /\ running' = [j \in (DOMAIN running) \ {i} |-> running[j]]
    /\ UNCHANGED notOrchVars
    /\ UNCHANGED <<transport, tasks, context, workers, pc, pending, threads,
                   inbox, resultQueue, wstate, wmsg, wprog, results>>

\* thread.join(timeout=300) for every thread of the round: all have ended.
McpJoin ==
    /\ transport = "mcp" /\ pc = "join"
    /\ threads \cap DOMAIN running = {}
    /\ pc' = "loop" /\ threads' = {}
    /\ UNCHANGED notOrchVars
    /\ UNCHANGED <<transport, tasks, context, workers, completed, pending,
                   running, inbox, resultQueue, wstate, wmsg, wprog, results>>

\* A join times out: the scheduler goes on while a thread of the round lives.
McpJoinTimeout ==
    /\ transport = "mcp" /\ pc = "join"
    /\ threads \cap DOMAIN running # {}
    /\ pc' = "loop" /\ threads' = {}
    /\ UNCHANGED notOrchVars
    /\ UNCHANGED <<transport, tasks, context, workers, completed, pending,
                   running, inbox, resultQueue, wstate, wmsg, wprog, results>>

--------------------------------------------------------------------------
\* Queue transport.

\* task_ids[idx]: one fresh id per task of the run.
TaskId(idx) == "task-" \o ToString(idx)

\* _msg_task_assign / _msg_task_result / _msg_task_progress.
MsgTaskAssign(task_id, ctx) ==
    [type |-> MSG_TASK_ASSIGN, task_id |-> task_id, status |-> "",
     result |-> "", context |-> ctx]
MsgTaskResult(task_id, status, result) ==
    [type |-> MSG_TASK_RESULT, task_id |-> task_id, status |-> status,
     result |-> result, context |-> EmptyDict]
MsgTaskProgress(task_id, message) ==
    [type |-> MSG_TASK_PROGRESS, task_id |-> task_id, status |-> "",
     result |-> message, context |-> EmptyDict]

\* _handle_queue_result: a task_result whose task_id is one of this run's is
\* stored in completed; progress and foreign results change nothing.
HandleQueueResult(msg, comp) ==
    IF msg.type = MSG_TASK_RESULT
       /\ \E i \in Indices(NumTasks) : TaskId(i) = msg.task_id
    THEN LET idx == CHOOSE i \in Indices(NumTasks) : TaskId(i) = msg.task_id
         IN  (idx :> [status |-> msg.status, result |-> msg.result])
                 @@ [j \in (DOMAIN comp) \ {idx} |-> comp[j]]
    ELSE comp

\* The dispatch loop `for idx in ready` of one round, in index order: put a
\* task_assign in the role's inbox, or record the no-worker error.
RECURSIVE QueueDispatch(_, _, _)
QueueDispatch(ready, comp, inb) ==
    IF ready = {} THEN [completed |-> comp, inbox |-> inb]
    ELSE LET idx == CHOOSE x \in ready : \A y \in ready : x <= y
             role == tasks[idx].worker_role
         IN  IF role \in workers
             THEN QueueDispatch(ready \ {idx}, comp,
                     [inb EXCEPT ![role] = Append(@,
                         MsgTaskAssign(TaskId(idx), DepContext(idx, comp)))])
             ELSE QueueDispatch(ready \ {idx},
                     (idx :> [status |-> "error",
                              result |-> "No worker found for role: " \o role])
                         @@ comp,
                     inb)

\* One iteration of `while pending` up to the inner wait loop.
QueueRound ==
    /\ transport = "queue" /\ pc = "loop" /\ pending # {}
    /\ LET ready == ReadySet(pending, completed)
           d == QueueDispatch(ready, completed, inbox)
       IN  IF ready = {}
           THEN /\ pc' = "wait"
                /\ UNCHANGED <<pending, completed, inbox>>
           ELSE /\ pending' = pending \ ready
                /\ completed' = d.completed
                /\ inbox' = d.inbox
                /\ pc' = "collect"
    /\ UNCHANGED notOrchVars
    /\ UNCHANGED <<transport, tasks, context, workers, running, threads,
                   resultQueue, wstate, wmsg, wprog, results>>

\* Nothing is ready: _result_queue.get(timeout=300) returns a message.
QueueWaitGet ==
    /\ transport = "queue" /\ pc = "wait" /\ resultQueue # <<>>
    /\ completed' = HandleQueueResult(Head(resultQueue), completed)
    /\ resultQueue' = Tail(resultQueue)
    /\ pc' = "loop"
    /\ UNCHANGED notOrchVars
    /\ UNCHANGED <<transport, tasks, context, workers, pending, running,
                   threads, inbox, wstate, wmsg, wprog, results>>

\* A scheduler that retries instead of leaving the loop on queue.Empty.
QueueWaitTimeoutRetry ==
    /\ transport = "queue" /\ pc = "wait" /\ resultQueue = <<>>
    /\ pc' = "loop"
    /\ UNCHANGED notOrchVars
    /\ UNCHANGED <<transport, tasks, context, workers, completed, pending,
                   running, threads, inbox, resultQueue, wstate, wmsg, wprog,
                   results>>

\* Nothing is ready and no message arrives in time: queue.Empty, break.
QueueWaitTimeout ==
    /\ transport = "queue" /\ pc = "wait" /\ resultQueue = <<>>
    /\ pc' = "build"
    /\ UNCHANGED notOrchVars
    /\ UNCHANGED <<transport, tasks, context, workers, completed, pending,
                   running, threads, inbox, resultQueue, wstate, wmsg, wprog,
                   results>>

\* The inner loop's condition: len(completed) < len(tasks) - len(pending).
AwaitingResults ==
    Cardinality(DOMAIN completed) < NumTasks - Cardinality(pending)

\* The inner wait loop ends: every dispatched task has an entry.
QueueCollectDone ==
    /\ transport = "queue" /\ pc = "collect" /\ ~AwaitingResults
    /\ pc' = "loop"
    /\ UNCHANGED notOrchVars
    /\ UNCHANGED <<transport, tasks, context, workers, completed, pending,
                   running, threads, inbox, resultQueue, wstate, wmsg, wprog,
                   results>>

\* The inner wait loop takes one message.
QueueCollectGet ==
    /\ transport = "queue" /\ pc = "collect" /\ AwaitingResults
    /\ resultQueue # <<>>
    /\ completed' = HandleQueueResult(Head(resultQueue), completed)
    /\ resultQueue' = Tail(resultQueue)
    /\ UNCHANGED notOrchVars
    /\ UNCHANGED <<transport, tasks, context, workers, pc, pending, running,
                   threads, inbox, wstate, wmsg, wprog, results>>

\* The inner wait loop times out: break, back to `while pending`.
QueueCollectTimeout ==
    /\ transport = "queue" /\ pc = "collect" /\ AwaitingResults
    /\ resultQueue = <<>>
    /\ pc' = "loop"
    /\ UNCHANGED notOrchVars
    /\ UNCHANGED <<transport, tasks, context, workers, completed, pending,
                   running, threads, inbox, resultQueue, wstate, wmsg, wprog,
                   results>>

\* QueueWorker._run_loop: _init_client raised; post the __init__ result, return.
WorkerInitFail(r) ==
    /\ wstate[r] = "init"
    /\ wstate' = [wstate EXCEPT ![r] = "dead"]
    /\ resultQueue' = Append(resultQueue,
           MsgTaskResult("__init__", "error", "Worker init failed"))
    /\ UNCHANGED notOrchVars
    /\ UNCHANGED <<transport, tasks, context, workers, pc, completed, pending,
                   running, threads, inbox, wmsg, wprog, results>>

\* QueueWorker._run_loop: _init_client has returned (on the first pass) and
\* inbox.get returns a task_assign.
WorkerTake(r) ==
    /\ wstate[r] \in {"init", "idle"} /\ inbox[r] # <<>>
    /\ wmsg' = [wmsg EXCEPT ![r] = Head(inbox[r])]
    /\ inbox' = [inbox EXCEPT ![r] = Tail(@)]
    /\ wstate' = [wstate EXCEPT ![r] = "busy"]
    /\ wprog' = [wprog EXCEPT ![r] = 0]
    /\ UNCHANGED notOrchVars
    /\ UNCHANGED <<transport, tasks, context, workers, pc, completed, pending,
                   running, threads, resultQueue, results>>

\* QueueWorker._handle_task, on_progress: post a task_progress.
WorkerProgress(r) ==
    /\ wstate[r] = "busy" /\ wprog[r] < MaxProgress
    /\ resultQueue' = Append(resultQueue, MsgTaskProgress(wmsg[r].task_id, "delta"))
    /\ wprog' = [wprog EXCEPT ![r] = @ + 1]
    /\ UNCHANGED notOrchVars
    /\ UNCHANGED <<transport, tasks, context, workers, pc, completed, pending,
                   running, threads, inbox, wstate, wmsg, results>>

\* The index of the task a message is about.
MsgIndex(msg) == CHOOSE i \in DOMAIN tasks : TaskId(i) = msg.task_id

\* QueueWorker._handle_task: the conversation call returned.
WorkerSucceed(r) ==
    /\ wstate[r] = "busy"
    /\ resultQueue' = Append(resultQueue,
           MsgTaskResult(wmsg[r].task_id, "success", ReplyText(MsgIndex(wmsg[r]))))
    /\ wstate' = [wstate EXCEPT ![r] = "idle"]
    /\ wmsg' = [wmsg EXCEPT ![r] = NoMsg]
    /\ UNCHANGED notOrchVars
    /\ UNCHANGED <<transport, tasks, context, workers, pc, completed, pending,
                   running, threads, inbox, wprog, results>>

\* QueueWorker._handle_task: the conversation call raised.
WorkerFail(r) ==
    /\ wstate[r] = "busy"
    /\ resultQueue' = Append(resultQueue,
           MsgTaskResult(wmsg[r].task_id, "error", ErrorText(MsgIndex(wmsg[r]))))
    /\ wstate' = [wstate EXCEPT ![r] = "idle"]
    /\ wmsg' = [wmsg EXCEPT ![r] = NoMsg]
    /\ UNCHANGED notOrchVars
    /\ UNCHANGED <<transport, tasks, context, workers, pc, completed, pending,
                   running, threads, inbox, wprog, results>>

\* `while pending` ends because pending is empty.
LoopExit ==
    /\ pc = "loop" /\ pending = {}
    /\ pc' = "build"
    /\ UNCHANGED notOrchVars
    /\ UNCHANGED <<transport, tasks, context, workers, completed, pending,
                   running, threads, inbox, resultQueue, wstate, wmsg, wprog,
                   results>>

\* Build the results list and return it.
Build ==
    /\ pc = "build"
    /\ results' = BuildResults(completed)
    /\ pc' = "done"
    /\ UNCHANGED notOrchVars
    /\ UNCHANGED <<transport, tasks, context, workers, completed, pending,
                   running, threads, inbox, resultQueue, wstate, wmsg, wprog>>

NextOrch ==
    \/ McpRound
    \/ \E i \in 0 .. MaxTasks : RunTaskReply(i)
    \/ \E i \in 0 .. MaxTasks : RunTaskRaise(i)
    \/ McpJoin
    \/ McpJoinTimeout
    \/ QueueRound
    \/ QueueWaitGet
    \/ QueueWaitTimeout
    \/ QueueCollectDone
    \/ QueueCollectGet
    \/ QueueCollectTimeout
    \/ \E r \in Roles : WorkerInitFail(r)
    \/ \E r \in Roles : WorkerTake(r)
    \/ \E r \in Roles : WorkerProgress(r)
    \/ \E r \in Roles : WorkerSucceed(r)
    \/ \E r \in Roles : WorkerFail(r)
    \/ LoopExit
    \/ Build

SpecOrch == InitOrch /\ [][NextOrch]_vars

\* The code's scheduling: threads run and timeouts elapse, so a step that
\* stays possible is eventually taken.
FairSpecOrch == SpecOrch /\ WF_vars(NextOrch)

\* The plans of four tasks none of which depends on another.
FourTaskPlans == [Indices(4) -> [worker_role : Roles, depends_on : {{}}]]

\* The scheduler called with a plan of four independent tasks.
InitFour ==
    /\ PoolAtRest /\ ClientAtRest /\ DocsAtRest /\ HandlerAtRest /\ CollectAtRest /\ DirectAtRest /\ ToolsAtRest /\ McpServerAtRest
    /\ CodecAtRest /\ McpAtRest /\ SanAtRest /\ WrapAtRest /\ ValidAtRest
    /\ ExtractAtRest /\ TaskAtRest /\ LspAtRest /\ RunAtRest /\ QueueWorkerAtRest
    /\ PlanAtRest
    /\ transport \in Transports
    /\ tasks \in FourTaskPlans
    /\ context \in CallerContexts
    /\ workers \in StartedWorkers(transport)
    /\ pc = "loop"
    /\ completed = EmptyDict
    /\ pending = DOMAIN tasks
    /\ running = EmptyDict
    /\ threads = {}
    /\ inbox = [r \in Roles |-> <<>>]
    /\ resultQueue = <<>>
    /\ wstate = [r \in Roles |->
                   IF transport = "queue" /\ r \in workers THEN "init" ELSE "none"]
    /\ wmsg = [r \in Roles |-> NoMsg]
    /\ wprog = [r \in Roles |-> 0]
    /\ results = <<>>

\* The steps of the scheduler and its workers for that plan.  QueueWaitGet and
\* QueueWaitTimeout are the steps from pc = "wait", the position QueueRound
\* moves to when nothing is ready.
NextFour ==
    \/ McpRound
    \/ \E i \in DOMAIN tasks : RunTaskReply(i)
    \/ \E i \in DOMAIN tasks : RunTaskRaise(i)
    \/ McpJoin
    \/ McpJoinTimeout
    \/ QueueRound
    \/ QueueCollectDone
    \/ QueueCollectGet
    \/ QueueCollectTimeout
    \/ \E r \in Roles : WorkerInitFail(r)
    \/ \E r \in Roles : WorkerTake(r)
    \/ \E r \in Roles : WorkerProgress(r)
    \/ \E r \in Roles : WorkerSucceed(r)
    \/ \E r \in Roles : WorkerFail(r)
    \/ LoopExit
    \/ Build

SpecFour == InitFour /\ [][NextFour]_vars

--------------------------------------------------------------------------
\* SessionPool (client.py).

\* d[k] = v and del d[k] on a dict.
DictSet(d, k, v) == (k :> v) @@ [x \in (DOMAIN d) \ {k} |-> d[x]]
DictDel(d, k) == [x \in (DOMAIN d) \ {k} |-> d[x]]

\* The number of calls of one kind in a caller's history.
RECURSIVE CountCalls(_, _)
CountCalls(seq, kind) ==
    IF seq = <<>> THEN 0
    ELSE (IF Head(seq) = kind THEN 1 ELSE 0) + CountCalls(Tail(seq), kind)
\* The sum of f over S.
RECURSIVE SumOver(_, _)
SumOver(f, S) ==
    IF S = {} THEN 0
    ELSE LET x == CHOOSE y \in S : TRUE IN f[x] + SumOver(f, S \ {x})

\* seq without its element at position i.
RemoveAt(seq, i) == [j \in 1 .. (Len(seq) - 1) |-> IF j < i THEN seq[j] ELSE seq[j + 1]]

\* CopilotClient.stop() on client c.
StopClient(st, c) == [st EXCEPT ![c] = @ + 1]

\* The end of an acquire call of caller t that returns client c.
AcquireReturns(t, c, agent) ==
    /\ returned' = [returned EXCEPT ![t] = [client |-> c, agent_mode |-> agent]]
    /\ held' = [held EXCEPT ![t] = Append(@, c)]
    /\ calls' = [calls EXCEPT ![t] = Append(@, "acquire")]

\* acquire, first locked block, key in _clients: count the reference, escalate
\* to agent mode if this caller asks for it and the client has not got it.
AcquireCached(t, agent) ==
    /\ cpc[t] = "idle" /\ acquires < MaxAcquires
    /\ Workspace \in DOMAIN poolClients
    /\ LET client == poolClients[Workspace]
           escalate == agent /\ ~poolAgentMode[client]
       IN  /\ poolRefcounts' = [poolRefcounts EXCEPT ![Workspace] = @ + 1]
           /\ preps' = IF escalate THEN [preps EXCEPT ![client] = @ + 1] ELSE preps
           /\ poolAgentMode' = IF escalate
                               THEN [poolAgentMode EXCEPT ![client] = TRUE]
                               ELSE poolAgentMode
           /\ AcquireReturns(t, client, agent)
    /\ UNCHANGED <<poolClients, started, stops, cpc, cmode, clocal, extra>>
    /\ acquires' = acquires + 1
    /\ UNCHANGED notPoolVars

\* acquire, first locked block, key not in _clients: go on to the full init.
AcquireMiss(t, agent) ==
    /\ cpc[t] = "idle" /\ acquires < MaxAcquires
    /\ Workspace \notin DOMAIN poolClients
    /\ cpc' = [cpc EXCEPT ![t] = "init"]
    /\ cmode' = [cmode EXCEPT ![t] = agent]
    /\ UNCHANGED <<poolClients, poolRefcounts, started, stops, preps,
                   poolAgentMode, clocal, held, returned, calls, extra>>
    /\ acquires' = acquires + 1
    /\ UNCHANGED notPoolVars

\* acquire, outside the lock: _init_client_internal spawns a fresh client and
\* prepares it for agent mode if asked; client._pool_agent_mode = agent_mode.
AcquireInit(t) ==
    /\ cpc[t] = "init"
    /\ LET c == Cardinality(started) + 1
       IN  /\ started' = started \cup {c}
           /\ stops' = DictSet(stops, c, 0)
           /\ preps' = DictSet(preps, c, IF cmode[t] THEN 1 ELSE 0)
           /\ poolAgentMode' = DictSet(poolAgentMode, c, cmode[t])
           /\ clocal' = [clocal EXCEPT ![t] = c]
    /\ cpc' = [cpc EXCEPT ![t] = "install"]
    /\ UNCHANGED <<poolClients, poolRefcounts, cmode, held, returned, calls, extra>>
    /\ UNCHANGED acquires
    /\ UNCHANGED notPoolVars

\* An install that overwrites whatever another caller installed meanwhile.
AcquireInstallNoRecheck(t) ==
    /\ cpc[t] = "install"
    /\ poolClients' = DictSet(poolClients, Workspace, clocal[t])
    /\ poolRefcounts' = DictSet(poolRefcounts, Workspace, 1)
    /\ AcquireReturns(t, clocal[t], cmode[t])
    /\ cpc' = [cpc EXCEPT ![t] = "idle"]
    /\ clocal' = [clocal EXCEPT ![t] = NoClient]
    /\ cmode' = [cmode EXCEPT ![t] = FALSE]
    /\ UNCHANGED <<started, stops, preps, poolAgentMode, extra>>
    /\ UNCHANGED acquires
    /\ UNCHANGED notPoolVars

\* acquire, second locked block: if another caller installed a client
\* meanwhile, stop ours and use theirs; else install ours with refcount 1.
AcquireInstall(t) ==
    /\ cpc[t] = "install"
    /\ IF Workspace \in DOMAIN poolClients
       THEN /\ stops' = StopClient(stops, clocal[t])
            /\ poolRefcounts' = [poolRefcounts EXCEPT ![Workspace] = @ + 1]
            /\ AcquireReturns(t, poolClients[Workspace], cmode[t])
            /\ UNCHANGED poolClients
       ELSE /\ poolClients' = DictSet(poolClients, Workspace, clocal[t])
            /\ poolRefcounts' = DictSet(poolRefcounts, Workspace, 1)
            /\ AcquireReturns(t, clocal[t], cmode[t])
            /\ UNCHANGED stops
    /\ cpc' = [cpc EXCEPT ![t] = "idle"]
    /\ clocal' = [clocal EXCEPT ![t] = NoClient]
    /\ cmode' = [cmode EXCEPT ![t] = FALSE]
    /\ UNCHANGED <<started, preps, poolAgentMode, extra>>
    /\ UNCHANGED acquires
    /\ UNCHANGED notPoolVars

\* A release that drops the pool entry at zero but leaves the client running.
PoolReleaseNoStop(c) ==
    IF Workspace \notin DOMAIN poolRefcounts
    THEN /\ stops' = StopClient(stops, c)
         /\ UNCHANGED <<poolClients, poolRefcounts>>
    ELSE IF poolRefcounts[Workspace] - 1 <= 0
         THEN /\ poolClients' = DictDel(poolClients, Workspace)
              /\ poolRefcounts' = DictDel(poolRefcounts, Workspace)
              /\ UNCHANGED stops
         ELSE /\ poolRefcounts' = [poolRefcounts EXCEPT ![Workspace] = @ - 1]
              /\ UNCHANGED <<poolClients, stops>>

\* SessionPool.release(client): a key with no refcount means not pooled, stop
\* the client; else decrement, and at zero drop the entry and stop the client.
PoolRelease(c) ==
    IF Workspace \notin DOMAIN poolRefcounts
    THEN /\ stops' = StopClient(stops, c)
         /\ UNCHANGED <<poolClients, poolRefcounts>>
    ELSE IF poolRefcounts[Workspace] - 1 <= 0
         THEN /\ poolClients' = DictDel(poolClients, Workspace)
              /\ poolRefcounts' = DictDel(poolRefcounts, Workspace)
              /\ stops' = StopClient(stops, c)
         ELSE /\ poolRefcounts' = [poolRefcounts EXCEPT ![Workspace] = @ - 1]
              /\ UNCHANGED <<poolClients, stops>>

\* release_client(client) by a caller on a client an acquire returned to it.
Release(t) ==
    /\ cpc[t] = "idle"
    /\ \E i \in 1 .. Len(held[t]) :
          /\ PoolRelease(held[t][i])
          /\ held' = [held EXCEPT ![t] = RemoveAt(@, i)]
    /\ calls' = [calls EXCEPT ![t] = Append(@, "release")]
    /\ UNCHANGED <<started, preps, poolAgentMode, cpc, cmode, clocal, returned, extra>>
    /\ UNCHANGED acquires
    /\ UNCHANGED notPoolVars

\* One release more than the caller's acquires, on the client it last held.
ExtraRelease(t) ==
    /\ cpc[t] = "idle" /\ held[t] = <<>> /\ extra < MaxExtra
    /\ returned[t].client # NoClient
    /\ PoolRelease(returned[t].client)
    /\ calls' = [calls EXCEPT ![t] = Append(@, "release")]
    /\ extra' = extra + 1
    /\ UNCHANGED <<started, preps, poolAgentMode, cpc, cmode, clocal, held, returned>>
    /\ UNCHANGED acquires
    /\ UNCHANGED notPoolVars

\* The orchestrator's variables while only the pool is exercised.
OrchAtRest ==
    /\ transport = "queue"
    /\ tasks = EmptyDict
    /\ context = EmptyDict
    /\ workers = {}
    /\ pc = "done"
    /\ completed = EmptyDict
    /\ pending = {}
    /\ running = EmptyDict
    /\ threads = {}
    /\ inbox = [r \in Roles |-> <<>>]
    /\ resultQueue = <<>>
    /\ wstate = [r \in Roles |-> "none"]
    /\ wmsg = [r \in Roles |-> NoMsg]
    /\ wprog = [r \in Roles |-> 0]
    /\ results = <<>>

InitPool == OrchAtRest /\ PoolAtRest /\ ClientAtRest /\ DocsAtRest /\ HandlerAtRest /\ CollectAtRest /\ CodecAtRest /\ McpAtRest /\ SanAtRest /\ WrapAtRest /\ ValidAtRest /\ ExtractAtRest /\ TaskAtRest /\ LspAtRest /\ RunAtRest /\ QueueWorkerAtRest /\ PlanAtRest /\ DirectAtRest /\ ToolsAtRest /\ McpServerAtRest

NextPool ==
    \/ \E t \in Callers, agent \in BOOLEAN : AcquireCached(t, agent)
    \/ \E t \in Callers, agent \in BOOLEAN : AcquireMiss(t, agent)
    \/ \E t \in Callers : AcquireInit(t)
    \/ \E t \in Callers : AcquireInstall(t)
    \/ \E t \in Callers : Release(t)
    \/ \E t \in Callers : ExtraRelease(t)

SpecPool == InitPool /\ [][NextPool]_vars

--------------------------------------------------------------------------
\* CopilotClient._next_id and send_request (client.py), called by several
\* threads on one client.  request_id += 1 is a load and a store with no
\* lock around them, and the return reads the attribute again.

\* _next_id, self.request_id += 1: load the attribute.
NextIdLoad(t) ==
    /\ spc[t] = "idle" /\ Len(sgot[t]) < MaxSends
    /\ sreg' = [sreg EXCEPT ![t] = request_id]
    /\ spc' = [spc EXCEPT ![t] = "loaded"]
    /\ UNCHANGED <<request_id, responses, wire, answered, smsg, sgot, sown, alive>>
    /\ UNCHANGED notClientVars

\* _next_id, self.request_id += 1: store the loaded value plus one.
NextIdStore(t) ==
    /\ spc[t] = "loaded"
    /\ request_id' = sreg[t] + 1
    /\ spc' = [spc EXCEPT ![t] = "stored"]
    /\ UNCHANGED <<responses, wire, answered, sreg, smsg, sgot, sown, alive>>
    /\ UNCHANGED notClientVars

\* _next_id, return self.request_id: msg_id is the attribute as it is now.
NextIdReturn(t) ==
    /\ spc[t] = "stored"
    /\ smsg' = [smsg EXCEPT ![t] = request_id]
    /\ spc' = [spc EXCEPT ![t] = "have_id"]
    /\ UNCHANGED <<request_id, responses, wire, answered, sreg, sgot, sown, alive>>
    /\ UNCHANGED notClientVars

\* How a send_request call ends other than with a response: the
\* TimeoutError of its last line, or the BrokenPipeError of a write to the
\* stdin of a subprocess that has exited.
TimeoutError == 0
BrokenPipeError == -1

\* The record of a finished call: own is the position on the wire of the
\* request it wrote (0 if it wrote none), got the position of the request whose
\* response it returned or the error it raised, running whether the
\* subprocess was running when the call ended.
Outcome(own, got) == [own |-> own, got |-> got, running |-> alive]

\* send_request: write the request with id msg_id to the server's stdin.
SendWrite(t) ==
    /\ spc[t] = "have_id"
    /\ alive
    /\ wire' = Append(wire, smsg[t])
    /\ sown' = [sown EXCEPT ![t] = Len(wire) + 1]
    /\ spc' = [spc EXCEPT ![t] = "waiting"]
    /\ UNCHANGED <<request_id, responses, answered, sreg, smsg, sgot, alive>>
    /\ UNCHANGED notClientVars

\* send_request: the write to the stdin of an exited subprocess raises
\* BrokenPipeError, which send_request does not catch.
SendWriteBrokenPipe(t) ==
    /\ spc[t] = "have_id"
    /\ ~alive
    /\ sgot' = [sgot EXCEPT ![t] = Append(@, Outcome(0, BrokenPipeError))]
    /\ spc' = [spc EXCEPT ![t] = "idle"]
    /\ UNCHANGED <<request_id, responses, wire, answered, sreg, smsg, sown, alive>>
    /\ UNCHANGED notClientVars

\* The server subprocess exits: read1 returns b"" and _reader_loop breaks;
\* nothing else is done.  The requests not answered yet never are.
ChildExit ==
    /\ alive
    /\ alive' = FALSE
    /\ UNCHANGED <<request_id, responses, wire, answered, spc, sreg, smsg, sgot, sown>>
    /\ UNCHANGED notClientVars

\* _reader_loop: the server's response to the next request on the wire
\* arrives and is stored under the request's id.
ReaderStore ==
    /\ alive
    /\ answered < Len(wire)
    /\ responses' = DictSet(responses, wire[answered + 1], answered + 1)
    /\ answered' = answered + 1
    /\ UNCHANGED <<request_id, wire, spc, sreg, smsg, sgot, sown, alive>>
    /\ UNCHANGED notClientVars

\* send_request: the poll finds msg_id in _responses, pops and returns it.
SendPoll(t) ==
    /\ spc[t] = "waiting"
    /\ smsg[t] \in DOMAIN responses
    /\ sgot' = [sgot EXCEPT ![t] = Append(@, Outcome(sown[t], responses[smsg[t]]))]
    /\ responses' = DictDel(responses, smsg[t])
    /\ spc' = [spc EXCEPT ![t] = "idle"]
    /\ UNCHANGED <<request_id, wire, answered, sreg, smsg, sown, alive>>
    /\ UNCHANGED notClientVars

\* send_request: the timeout passes with no response under msg_id; the call
\* raises TimeoutError.  Nothing else ends the wait.
SendTimeout(t) ==
    /\ spc[t] = "waiting"
    /\ smsg[t] \notin DOMAIN responses
    /\ sgot' = [sgot EXCEPT ![t] = Append(@, Outcome(sown[t], TimeoutError))]
    /\ spc' = [spc EXCEPT ![t] = "idle"]
    /\ UNCHANGED <<request_id, responses, wire, answered, sreg, smsg, sown, alive>>
    /\ UNCHANGED notClientVars

InitIds == OrchAtRest /\ PoolAtRest /\ ClientAtRest /\ DocsAtRest /\ HandlerAtRest /\ CollectAtRest /\ CodecAtRest /\ McpAtRest /\ SanAtRest /\ WrapAtRest /\ ValidAtRest /\ ExtractAtRest /\ TaskAtRest /\ LspAtRest /\ RunAtRest /\ QueueWorkerAtRest /\ PlanAtRest /\ DirectAtRest /\ ToolsAtRest /\ McpServerAtRest

NextIds ==
    \/ \E t \in Senders : NextIdLoad(t)
    \/ \E t \in Senders : NextIdStore(t)
    \/ \E t \in Senders : NextIdReturn(t)
    \/ \E t \in Senders : SendWrite(t)
    \/ ReaderStore
    \/ \E t \in Senders : SendPoll(t)
    \/ \E t \in Senders : SendTimeout(t)

SpecIds == InitIds /\ [][NextIds]_vars

\* The same client with a server subprocess that may exit at any time.
NextSession ==
    \/ \E t \in Senders : NextIdLoad(t)
    \/ \E t \in Senders : NextIdStore(t)
    \/ \E t \in Senders : NextIdReturn(t)
    \/ \E t \in Senders : SendWrite(t)
    \/ \E t \in Senders : SendWriteBrokenPipe(t)
    \/ ReaderStore
    \/ \E t \in Senders : SendPoll(t)
    \/ \E t \in Senders : SendTimeout(t)
    \/ ChildExit

SpecSession == InitIds /\ [][NextSession]_vars

--------------------------------------------------------------------------
\* CopilotClient.open_document / _sync_file_to_server and
\* _open_workspace_files (client.py): the versions of the documents.

\* The files the callers name, as URIs; a.py and b.md have an extension that
\* _open_workspace_files opens, notes.txt has not.
Uris == {"file:///ws/a.py", "file:///ws/b.md", "file:///ws/notes.txt"}
WorkspaceUris == {"file:///ws/a.py", "file:///ws/b.md"}

\* The notification a call sends.
DidOpen(uri, version) == [method |-> "textDocument/didOpen", uri |-> uri, version |-> version]
DidChange(uri, version) == [method |-> "textDocument/didChange", uri |-> uri, version |-> version]

\* open_document(uri, language_id, text): version defaults to 1; the version
\* is recorded and didOpen is sent.
OpenDocumentOn(dv, ns, uri) ==
    [versions |-> DictSet(dv, uri, 1), sent |-> Append(ns, DidOpen(uri, 1))]

OpenDocument(uri) ==
    /\ Len(notifs) < MaxNotifs
    /\ LET r == OpenDocumentOn(doc_versions, notifs, uri)
       IN  doc_versions' = r.versions /\ notifs' = r.sent
    /\ UNCHANGED notDocVars

\* _sync_file_to_server(file_path, new_content): a known uri gets its version
\* incremented and a didChange; an unknown one is opened.
SyncFileToServer(uri) ==
    /\ Len(notifs) < MaxNotifs
    /\ IF uri \in DOMAIN doc_versions
       THEN /\ doc_versions' = [doc_versions EXCEPT ![uri] = @ + 1]
            /\ notifs' = Append(notifs, DidChange(uri, doc_versions[uri] + 1))
       ELSE LET r == OpenDocumentOn(doc_versions, notifs, uri)
            IN  doc_versions' = r.versions /\ notifs' = r.sent
    /\ UNCHANGED notDocVars

\* _open_workspace_files(client, workspace): open_document on every file of
\* the workspace with a known extension.
RECURSIVE OpenAll(_, _, _)
OpenAll(dv, ns, uris) ==
    IF uris = {} THEN [versions |-> dv, sent |-> ns]
    ELSE LET u == CHOOSE x \in uris : TRUE
             r == OpenDocumentOn(dv, ns, u)
         IN  OpenAll(r.versions, r.sent, uris \ {u})

OpenWorkspaceFiles ==
    /\ Len(notifs) + Cardinality(WorkspaceUris) <= MaxNotifs
    /\ LET r == OpenAll(doc_versions, notifs, WorkspaceUris)
       IN  doc_versions' = r.versions /\ notifs' = r.sent
    /\ UNCHANGED notDocVars

InitDocs == OrchAtRest /\ PoolAtRest /\ ClientAtRest /\ DocsAtRest /\ HandlerAtRest /\ CollectAtRest /\ CodecAtRest /\ McpAtRest /\ SanAtRest /\ WrapAtRest /\ ValidAtRest /\ ExtractAtRest /\ TaskAtRest /\ LspAtRest /\ RunAtRest /\ QueueWorkerAtRest /\ PlanAtRest /\ DirectAtRest /\ ToolsAtRest /\ McpServerAtRest

NextDocs ==
    \/ \E uri \in Uris : OpenDocument(uri)
    \/ \E uri \in Uris : SyncFileToServer(uri)
    \/ OpenWorkspaceFiles

SpecDocs == InitDocs /\ [][NextDocs]_vars

--------------------------------------------------------------------------
--------------------------------------------------------------------------
\* CopilotClient: the server-to-client requests (client.py, _reader_loop,
\* start._request_handler, _handle_server_request, _execute_client_tool,
\* _send_response) and the writes to the subprocess's stdin; MCPServer's
\* reader (mcp.py, _reader_loop, _send_raw).

MaxServerRequests == 3
MaxCallerWrites == 1

\* The methods _handle_server_request tells apart; any other is auto-answered.
ServerMethods == {"conversation/invokeClientToolConfirmation",
                  "conversation/invokeClientTool",
                  "copilot/watchedFiles",
                  "window/showMessageRequest",
                  "workspace/configuration"}

\* What the tool executor does for an invokeClientTool request: it returns a
\* result, raises one of the exceptions _execute_client_tool catches (OSError,
\* SubprocessError, JSONDecodeError, ValueError, TypeError), or raises any
\* other exception.
ToolOutcomes == {"returns", "raises_caught", "raises_other"}
NoTool == "none"

\* The server requests the reader may route: the server numbers them.
ServerRequest(id, method, tool) == [id |-> id, method |-> method, tool |-> tool]
RequestsWithId(id) ==
    {ServerRequest(id, m, IF m = "conversation/invokeClientTool" THEN o ELSE NoTool) :
        m \in ServerMethods, o \in ToolOutcomes}

\* The threads of a client.
CallerThread == "caller"
HandlerThread == "handler"
ReaderThread == "reader"

\* A frame on stdin: the thread that wrote it, and the id and result of a
\* response (id 0 for a frame that is not a response).
Frame(thread, id, result) == [thread |-> thread, id |-> id, result |-> result]

\* _reader_loop, a message with id and method: appended to
\* _pending_server_requests under the lock.
ReaderRouteRequest(msg) ==
    /\ Len(received) < MaxServerRequests
    /\ msg.id = Len(received) + 1
    /\ pending_server_requests' = Append(pending_server_requests, msg)
    /\ received' = Append(received, msg)
    /\ UNCHANGED <<hpc, hreqs, stdin, mcp_stdin>>
    /\ UNCHANGED notHandlerVars

\* _request_handler, the locked block: reqs is a copy of the pending list,
\* which is cleared.
HandlerTake ==
    /\ hpc = "poll"
    /\ pending_server_requests # <<>>
    /\ hreqs' = pending_server_requests
    /\ pending_server_requests' = <<>>
    /\ hpc' = "handle"
    /\ UNCHANGED <<received, stdin, mcp_stdin>>
    /\ UNCHANGED notHandlerVars

\* The result _handle_server_request passes to _send_response.
HandlerResult(msg) ==
    CASE msg.method = "conversation/invokeClientToolConfirmation" -> "accept"
      [] msg.method = "conversation/invokeClientTool" ->
            IF msg.tool = "returns" THEN "tool_result" ELSE "tool_error_text"
      [] msg.method = "copilot/watchedFiles" -> "watchedFiles"
      [] OTHER -> "null"

\* Whether _handle_server_request(msg) raises: the executor's exception is
\* not one of those _execute_client_tool catches.
HandlerRaises(msg) ==
    msg.method = "conversation/invokeClientTool" /\ msg.tool = "raises_other"

\* _request_handler, one iteration of for msg in reqs: the response is
\* written by the handler thread; an exception leaves the loop and ends the
\* thread, the rest of reqs with it.
HandlerHandle ==
    /\ hpc = "handle"
    /\ hreqs # <<>>
    /\ LET msg == Head(hreqs)
       IN  IF HandlerRaises(msg)
           THEN /\ hpc' = "dead"
                /\ hreqs' = <<>>
                /\ UNCHANGED stdin
           ELSE /\ stdin' = Append(stdin, Frame(HandlerThread, msg.id, HandlerResult(msg)))
                /\ hreqs' = Tail(hreqs)
                /\ UNCHANGED hpc
    /\ UNCHANGED <<pending_server_requests, received, mcp_stdin>>
    /\ UNCHANGED notHandlerVars

\* _request_handler, after the for loop: time.sleep(0.05), then the next poll.
HandlerSleep ==
    /\ hpc = "handle"
    /\ hreqs = <<>>
    /\ hpc' = "poll"
    /\ UNCHANGED <<pending_server_requests, hreqs, received, stdin, mcp_stdin>>
    /\ UNCHANGED notHandlerVars

\* send_request / send_notification of a calling thread: one write of the
\* encoded frame.  The code holds no lock here; a write call on the buffered
\* stdin is one step.
CallerWrite ==
    /\ Cardinality({i \in DOMAIN stdin : stdin[i].thread = CallerThread}) < MaxCallerWrites
    /\ stdin' = Append(stdin, Frame(CallerThread, 0, "request"))
    /\ UNCHANGED <<pending_server_requests, hpc, hreqs, received, mcp_stdin>>
    /\ UNCHANGED notHandlerVars

\* MCPServer._reader_loop, a line with method and id: the reader thread itself
\* answers through _send_raw.
McpReaderAutoRespond ==
    /\ Len(mcp_stdin) < MaxCallerWrites + 1
    /\ mcp_stdin' = Append(mcp_stdin, Frame(ReaderThread, Len(mcp_stdin) + 1, "{}"))
    /\ UNCHANGED <<pending_server_requests, hpc, hreqs, received, stdin>>
    /\ UNCHANGED notHandlerVars

\* MCPServer.send_request of a calling thread.
McpSendRequest ==
    /\ Len(mcp_stdin) < MaxCallerWrites + 1
    /\ mcp_stdin' = Append(mcp_stdin, Frame(CallerThread, 0, "request"))
    /\ UNCHANGED <<pending_server_requests, hpc, hreqs, received, stdin>>
    /\ UNCHANGED notHandlerVars

InitHandler == OrchAtRest /\ PoolAtRest /\ ClientAtRest /\ DocsAtRest /\ HandlerAtRest /\ CollectAtRest /\ CodecAtRest /\ McpAtRest /\ SanAtRest /\ WrapAtRest /\ ValidAtRest /\ ExtractAtRest /\ TaskAtRest /\ LspAtRest /\ RunAtRest /\ QueueWorkerAtRest /\ PlanAtRest /\ DirectAtRest /\ ToolsAtRest /\ McpServerAtRest

NextHandler ==
    \/ \E id \in 1 .. MaxServerRequests : \E msg \in RequestsWithId(id) : ReaderRouteRequest(msg)
    \/ HandlerTake
    \/ HandlerHandle
    \/ HandlerSleep
    \/ CallerWrite
    \/ McpReaderAutoRespond
    \/ McpSendRequest

SpecHandler == InitHandler /\ [][NextHandler]_vars

--------------------------------------------------------------------------
\* CopilotClient._collect_chat_reply and the $/progress branch of
\* _reader_loop (client.py).  Time is counted in tenths of a second from the
\* start of the collection.

MaxUpdates == 3
MaxShortSleeps == 2

\* inactivity_limit = 60 seconds.
inactivity_limit == 600

\* The timeout the callers pass: 60 s for chat, 300 s for agent mode.
Timeouts == {600, 3000}

\* How long one time.sleep(0.1) may take: 0.1 s, or longer when the thread
\* is not scheduled at once.
SleepSteps == {1, 599, 600}

work_done_token == "copilot-chat-1"

\* The values of $/progress notifications: reports with a reply or a message
\* fragment, a begin record with a title, the end record.
Update(kind, reply, message) == [kind |-> kind, reply |-> reply, message |-> message]
UpdatesOf(k) ==
    IF k = work_done_token
    THEN {Update("report", "a", ""), Update("report", "", "b"),
          Update("begin", "", "title"), Update("end", "", "")}
    ELSE {Update("report", "x", "")}

\* A reader that would put the newest update first.
ProgressPrepend(updates, value) == <<value>> \o updates

\* _reader_loop, $/progress: self._progress.setdefault(token, []).append(value).
ProgressAppend(updates, value) == Append(updates, value)

ReaderProgress(k, value) ==
    /\ Len(arrived[work_done_token]) + Len(arrived["copilot-chat-2"]) < MaxUpdates
    /\ progress' = [progress EXCEPT ![k] = ProgressAppend(@, value)]
    /\ arrived' = [arrived EXCEPT ![k] = Append(@, value)]
    /\ UNCHANGED <<kpc, timeout, now, last_activity, is_done, reply_parts, shortSleeps>>
    /\ UNCHANGED notCollectVars

\* What one update appends to reply_parts: its reply, then its message
\* unless the update is the begin record.
Fragments(update) ==
    update.reply \o (IF update.kind # "begin" THEN update.message ELSE "")

\* The for loop over the updates of one poll: the text appended and whether
\* the end record was met; the loop breaks at the end record.
RECURSIVE ProcessUpdates(_, _)
ProcessUpdates(updates, text) ==
    IF updates = <<>> THEN [text |-> text, done |-> FALSE]
    ELSE IF Head(updates).kind = "end" THEN [text |-> text, done |-> TRUE]
    ELSE ProcessUpdates(Tail(updates), text \o Fragments(Head(updates)))

\* while time.time() - start < timeout and not done: time.sleep(0.1).
CollectSleep(d) ==
    /\ kpc = "loop"
    /\ now < timeout /\ ~is_done
    /\ d = 1 => shortSleeps < MaxShortSleeps
    /\ shortSleeps' = IF d = 1 THEN shortSleeps + 1 ELSE shortSleeps
    /\ now' = now + d
    /\ kpc' = "poll"
    /\ UNCHANGED <<progress, arrived, timeout, last_activity, is_done, reply_parts>>
    /\ UNCHANGED notCollectVars

\* The rest of one iteration: the updates of the token are popped under the
\* lock and processed; then the inactivity check.
CollectPoll ==
    /\ kpc = "poll"
    /\ LET updates == progress[work_done_token]
           r == ProcessUpdates(updates, reply_parts)
           last == IF updates # <<>> THEN now ELSE last_activity
       IN  /\ progress' = [progress EXCEPT ![work_done_token] = <<>>]
           /\ last_activity' = last
           /\ reply_parts' = r.text
           /\ is_done' = r.done
           /\ kpc' = IF ~r.done /\ now - last > inactivity_limit
                     THEN "inactivity_error" ELSE "loop"
    /\ UNCHANGED <<arrived, timeout, now, shortSleeps>>
    /\ UNCHANGED notCollectVars

\* An exit that would return whatever was collected.
CollectExitNoRaise ==
    /\ kpc = "loop"
    /\ ~(now < timeout /\ ~is_done)
    /\ kpc' = "returned"
    /\ UNCHANGED <<progress, arrived, timeout, now, last_activity, is_done, reply_parts, shortSleeps>>
    /\ UNCHANGED notCollectVars

\* After the loop: TimeoutError if not done, else the reply is returned.
CollectExit ==
    /\ kpc = "loop"
    /\ ~(now < timeout /\ ~is_done)
    /\ kpc' = IF ~is_done THEN "timeout_error" ELSE "returned"
    /\ UNCHANGED <<progress, arrived, timeout, now, last_activity, is_done, reply_parts, shortSleeps>>
    /\ UNCHANGED notCollectVars

InitCollect ==
    /\ OrchAtRest /\ PoolAtRest /\ ClientAtRest /\ DocsAtRest /\ HandlerAtRest /\ CodecAtRest /\ McpAtRest /\ SanAtRest /\ WrapAtRest /\ ValidAtRest /\ ExtractAtRest /\ TaskAtRest /\ LspAtRest /\ RunAtRest /\ QueueWorkerAtRest /\ PlanAtRest /\ DirectAtRest /\ ToolsAtRest /\ McpServerAtRest
    /\ progress = [k \in Tokens |-> <<>>]
    /\ arrived = [k \in Tokens |-> <<>>]
    /\ kpc = "loop"
    /\ timeout \in Timeouts
    /\ now = 0
    /\ last_activity = 0
    /\ is_done = FALSE
    /\ reply_parts = ""
    /\ shortSleeps = 0

NextCollect ==
    \/ \E k \in Tokens : \E value \in UpdatesOf(k) : ReaderProgress(k, value)
    \/ \E d \in SleepSteps : CollectSleep(d)
    \/ CollectPoll
    \/ CollectExit

SpecCollect == InitCollect /\ [][NextCollect]_vars

\* The collecting thread keeps running; the reader may stay silent.
FairSpecCollect ==
    /\ SpecCollect
    /\ WF_vars(\E d \in SleepSteps : CollectSleep(d))
    /\ WF_vars(CollectPoll)
    /\ WF_vars(CollectExit)

--------------------------------------------------------------------------
\* The two framings: Content-Length (client.py _encode_message /
\* _read_message / _reader_loop, lsp_bridge.py _parse_message) and
\* newline-delimited JSON (mcp.py _send_raw / _reader_loop, mcp_agent.py).
\* A byte is a one-character string; "CR", "LF", "BS" and "QUOTE" stand for
\* carriage return, line feed, backslash and the double quote.  A message
\* is the JSON object {"id": id, "result": result}, result a string given as
\* the sequence of its characters ("e_acute" is the non-ASCII character U+00E9).

MaxFrames == 2

Codecs == {"content-length", "newline"}

\* The result strings the messages carry.
Strings == {<<>>, <<"a">>, <<"LF">>, <<"BS", "n">>, <<"QUOTE">>, <<"e_acute">>}
Messages == {[id |-> 1, result |-> s] : s \in Strings}

\* str(n) and int(s) for decimal numerals.
DigitBytes == <<"0", "1", "2", "3", "4", "5", "6", "7", "8", "9">>
RECURSIVE Str(_)
Str(n) == IF n < 10 THEN <<DigitBytes[n + 1]>>
          ELSE Str(n \div 10) \o <<DigitBytes[(n % 10) + 1]>>
RECURSIVE int(_)
int(s) == IF Len(s) = 1 THEN (CHOOSE d \in 0 .. 9 : DigitBytes[d + 1] = s[1])
          ELSE 10 * int(SubSeq(s, 1, Len(s) - 1)) + int(<<s[Len(s)]>>)
IsNumeral(s) == s # <<>> /\ \A i \in DOMAIN s : \E d \in 1 .. 10 : DigitBytes[d] = s[i]

\* json.dumps of a string's characters (ensure_ascii is on by default).
RECURSIVE Escape(_)
Escape(s) ==
    IF s = <<>> THEN <<>>
    ELSE (CASE s[1] = "LF" -> <<"BS", "n">>
            [] s[1] = "BS" -> <<"BS", "BS">>
            [] s[1] = "QUOTE" -> <<"BS", "QUOTE">>
            [] s[1] = "e_acute" -> <<"BS", "u", "0", "0", "e", "9">>
            [] OTHER -> <<s[1]>>) \o Escape(Tail(s))

\* json.dumps(msg), as bytes.
BeforeId == <<"{", "QUOTE", "i", "d", "QUOTE", ":", " ">>
BeforeResult == <<",", " ", "QUOTE", "r", "e", "s", "u", "l", "t", "QUOTE", ":", " ", "QUOTE">>
Dumps(msg) ==
    BeforeId \o Str(msg.id) \o BeforeResult \o Escape(msg.result) \o <<"QUOTE", "}">>

\* The characters of a JSON string body, or <<"INVALID">> at the end of what
\* could be read when it is not one.
RECURSIVE Unescape(_)
Unescape(b) ==
    IF b = <<>> THEN <<>>
    ELSE IF b[1] = "BS"
    THEN IF Len(b) >= 2 /\ b[2] = "n" THEN <<"LF">> \o Unescape(SubSeq(b, 3, Len(b)))
         ELSE IF Len(b) >= 2 /\ b[2] = "BS" THEN <<"BS">> \o Unescape(SubSeq(b, 3, Len(b)))
         ELSE IF Len(b) >= 2 /\ b[2] = "QUOTE" THEN <<"QUOTE">> \o Unescape(SubSeq(b, 3, Len(b)))
         ELSE IF Len(b) >= 6 /\ SubSeq(b, 2, 6) = <<"u", "0", "0", "e", "9">>
         THEN <<"e_acute">> \o Unescape(SubSeq(b, 7, Len(b)))
         ELSE <<"INVALID">>
    ELSE IF b[1] \in {"QUOTE", "LF", "CR"} THEN <<"INVALID">>
    ELSE <<b[1]>> \o Unescape(Tail(b))

\* The number of bytes before the first occurrence of pat in b, or -1:
\* bytes.find.
RECURSIVE Find(_, _)
Find(b, pat) ==
    IF Len(b) < Len(pat) THEN -1
    ELSE IF SubSeq(b, 1, Len(pat)) = pat THEN 0
    ELSE LET r == Find(Tail(b), pat) IN IF r = -1 THEN -1 ELSE r + 1

\* json.loads(body) for the objects of this model: the message, or ok = FALSE
\* where json.loads raises JSONDecodeError.
JSONDecodeError == [ok |-> FALSE, msg |-> [id |-> 0, result |-> <<>>]]
Loads(body) ==
    LET comma == Find(body, BeforeResult)
        n == Len(body)
    IN  IF /\ n >= Len(BeforeId) + 1 + Len(BeforeResult) + 2
           /\ SubSeq(body, 1, Len(BeforeId)) = BeforeId
           /\ comma > Len(BeforeId)
           /\ IsNumeral(SubSeq(body, Len(BeforeId) + 1, comma))
           /\ SubSeq(body, n - 1, n) = <<"QUOTE", "}">>
           /\ comma + Len(BeforeResult) <= n - 2
        THEN LET s == Unescape(SubSeq(body, comma + Len(BeforeResult) + 1, n - 2))
             IN  IF s # <<>> /\ s[Len(s)] = "INVALID" THEN JSONDecodeError
                 ELSE [ok |-> TRUE,
                       msg |-> [id |-> int(SubSeq(body, Len(BeforeId) + 1, comma)),
                                result |-> s]]
        ELSE JSONDecodeError

\* _encode_message: the header with the length of the body, then the body.
ContentLength == <<"C", "o", "n", "t", "e", "n", "t", "-", "L", "e", "n", "g", "t", "h", ":">>
HeaderEnd == <<"CR", "LF", "CR", "LF">>
Framed(body) == ContentLength \o <<" ">> \o Str(Len(body)) \o HeaderEnd \o body
EncodeMessage(msg) == Framed(Dumps(msg))

\* _send_raw / _send: json.dumps(msg) + "\n".
SendRaw(msg) == Dumps(msg) \o <<"LF">>

\* A frame whose body is not valid JSON: an encoded message cut short.
BadBody == SubSeq(Dumps([id |-> 1, result |-> <<"a">>]), 1, 12)
Malformed == [id |-> 0, result |-> <<"INVALID">>]

\* What the peer writes for one item of its input.
Written(c, item) ==
    IF c = "content-length"
    THEN (IF item = Malformed THEN Framed(BadBody) ELSE EncodeMessage(item))
    ELSE (IF item = Malformed THEN BadBody \o <<"LF">> ELSE SendRaw(item))

\* str.strip() of the blanks that occur here.
RECURSIVE Strip(_)
Strip(b) ==
    IF b # <<>> /\ b[1] \in {" ", "CR", "LF"} THEN Strip(Tail(b))
    ELSE IF b # <<>> /\ b[Len(b)] \in {" ", "CR", "LF"} THEN Strip(SubSeq(b, 1, Len(b) - 1))
    ELSE b

\* body_start = header_end + 4.
BodyStartThree(header_end) == header_end + 3
BodyStart(header_end) == header_end + 4

\* _read_message / _parse_message on a buffer: kind "none" for return None,
\* "raise" where int() or json.loads raises, else "msg"; rest is the buffer
\* the call leaves.
ReadMessage(b) ==
    LET header_end == Find(b, HeaderEnd)
        line == SubSeq(b, 1, header_end)
        has_length == /\ Len(line) >= Len(ContentLength)
                      /\ SubSeq(line, 1, Len(ContentLength)) = ContentLength
        numeral == Strip(SubSeq(line, Len(ContentLength) + 1, Len(line)))
    IN  IF header_end = -1 \/ ~has_length THEN [kind |-> "none", rest |-> b, msg |-> Malformed]
        ELSE IF ~IsNumeral(numeral) THEN [kind |-> "raise", rest |-> b, msg |-> Malformed]
        ELSE LET body_start == BodyStart(header_end)
                 body_end == body_start + int(numeral)
             IN  IF Len(b) < body_end THEN [kind |-> "none", rest |-> b, msg |-> Malformed]
                 ELSE LET r == Loads(SubSeq(b, body_start + 1, body_end))
                          rest == SubSeq(b, body_end + 1, Len(b))
                      IN  IF r.ok THEN [kind |-> "msg", rest |-> rest, msg |-> r.msg]
                          ELSE [kind |-> "raise", rest |-> rest, msg |-> Malformed]

\* _reader_loop, while True: msg = self._read_message() ...: the messages
\* routed, the buffer left, and whether an exception left the loop.
RECURSIVE ParseLoop(_, _)
ParseLoop(b, msgs) ==
    LET r == ReadMessage(b)
    IN  IF r.kind = "none" THEN [buffer |-> b, routed |-> msgs, raised |-> FALSE]
        ELSE IF r.kind = "raise" THEN [buffer |-> r.rest, routed |-> msgs, raised |-> TRUE]
        ELSE ParseLoop(r.rest, Append(msgs, r.msg))

\* The sizes of the chunks read1(4096) returns.
ChunkSizes == {1, 2, 23, 4096}

\* _reader_loop of CopilotClient / LSPServer: one read1 and the parse loop.
\* An exception in the loop is caught nowhere: the reader thread ends.
Feed(n) ==
    /\ codec = "content-length" /\ reader = "running" /\ pipe # <<>>
    /\ LET k == IF n <= Len(pipe) THEN n ELSE Len(pipe)
           r == ParseLoop(buffer \o SubSeq(pipe, 1, k), routed)
       IN  /\ pipe' = SubSeq(pipe, k + 1, Len(pipe))
           /\ buffer' = r.buffer
           /\ routed' = r.routed
           /\ reader' = IF r.raised THEN "dead" ELSE "running"
    /\ UNCHANGED <<codec, input>>
    /\ UNCHANGED notCodecVars

\* _reader_loop of MCPServer / serve_forever of the agent: readline, strip,
\* json.loads; an empty line or a JSONDecodeError is skipped.
ReadLine ==
    /\ codec = "newline" /\ reader = "running"
    /\ Find(pipe, <<"LF">>) # -1
    /\ LET k == Find(pipe, <<"LF">>) + 1
           line == Strip(SubSeq(pipe, 1, k))
           r == Loads(line)
       IN  /\ pipe' = SubSeq(pipe, k + 1, Len(pipe))
           /\ routed' = IF line # <<>> /\ r.ok THEN Append(routed, r.msg) ELSE routed
    /\ UNCHANGED <<codec, input, buffer, reader>>
    /\ UNCHANGED notCodecVars

\* The peer writes one more frame.
PeerWrite(item) ==
    /\ Len(input) < MaxFrames
    /\ input' = Append(input, item)
    /\ pipe' = pipe \o Written(codec, item)
    /\ UNCHANGED <<codec, buffer, routed, reader>>
    /\ UNCHANGED notCodecVars

InitCodec ==
    /\ OrchAtRest /\ PoolAtRest /\ ClientAtRest /\ DocsAtRest /\ HandlerAtRest /\ CollectAtRest /\ McpAtRest /\ SanAtRest /\ WrapAtRest /\ ValidAtRest /\ ExtractAtRest /\ TaskAtRest /\ LspAtRest /\ RunAtRest /\ QueueWorkerAtRest /\ PlanAtRest /\ DirectAtRest /\ ToolsAtRest /\ McpServerAtRest
    /\ codec \in Codecs
    /\ input = <<>>
    /\ pipe = <<>>
    /\ buffer = <<>>
    /\ routed = <<>>
    /\ reader = "running"

NextCodec ==
    \/ \E item \in Messages \cup {Malformed} : PeerWrite(item)
    \/ \E n \in ChunkSizes : Feed(n)
    \/ ReadLine

SpecCodec == InitCodec /\ [][NextCodec]_vars

--------------------------------------------------------------------------
\* ClientMCPManager.add_servers / start_all / get_tool_schemas (mcp.py) and
\* CopilotClient.register_client_tools (client.py).

\* The names of the configured servers (keys of the --mcp config) and of the
\* tools the servers report.
ServerNames == {"git", "git_hub", "fs"}
ToolNames == {"search", "hub_search"}

\* What tools/list of one server may return; a server that failed to start
\* has no tools.
ToolLists == {<<>>} \cup {<<t>> : t \in ToolNames}
                \cup {<<t, u>> : t, u \in ToolNames}

\* The names of TOOL_SCHEMAS, the tools of the client itself.
BuiltinToolNames == <<"read_file", "grep_search">>

\* prefixed = f"mcp_{name}_{tool_name}".
Prefixed(name, tool_name) == "mcp_" \o name \o "_" \o tool_name

\* add_servers(config): one MCPServer per entry, keyed by name.
AddServers(config) ==
    /\ servers = <<>>
    /\ config # <<>>
    /\ servers' = [i \in DOMAIN config |-> [name |-> config[i], tools |-> <<>>]]
    /\ UNCHANGED <<tool_map, registered>>
    /\ UNCHANGED notMcpVars

\* The loop of start_all and of get_tool_schemas over the servers and their
\* tools: the (server, tool) pairs in order.
RECURSIVE PairsOf(_)
PairsOf(ss) ==
    IF ss = <<>> THEN <<>>
    ELSE [i \in DOMAIN Head(ss).tools |-> <<Head(ss).name, Head(ss).tools[i]>>]
            \o PairsOf(Tail(ss))

\* self._tool_map[prefixed] = (name, tool_name), in order: a later pair
\* replaces an earlier one with the same prefixed name.
RECURSIVE BuildToolMap(_, _)
BuildToolMap(pairs, map) ==
    IF pairs = <<>> THEN map
    ELSE BuildToolMap(Tail(pairs),
                      DictSet(map, Prefixed(Head(pairs)[1], Head(pairs)[2]), Head(pairs)))

\* start_all, called once after add_servers: every server is started and
\* lists its tools (none if it fails); then the tool map is cleared and
\* rebuilt.
StartAll(report) ==
    /\ servers # <<>>
    /\ tool_map = EmptyDict /\ \A i \in DOMAIN servers : servers[i].tools = <<>>
    /\ LET ss == [i \in DOMAIN servers |-> [servers[i] EXCEPT !.tools = report[servers[i].name]]]
       IN  /\ servers' = ss
           /\ tool_map' = BuildToolMap(PairsOf(ss), EmptyDict)
    /\ UNCHANGED registered
    /\ UNCHANGED notMcpVars

\* get_tool_schemas: one schema per tool of every server, named by prefix.
GetToolSchemas ==
    LET pairs == PairsOf(servers)
    IN  [i \in DOMAIN pairs |-> Prefixed(pairs[i][1], pairs[i][2])]

\* register_client_tools: TOOL_SCHEMAS followed by the MCP tool schemas.
RegisterClientTools ==
    /\ registered' = BuiltinToolNames \o GetToolSchemas
    /\ registered' # registered
    /\ UNCHANGED <<servers, tool_map>>
    /\ UNCHANGED notMcpVars

InitMcp ==
    /\ OrchAtRest /\ PoolAtRest /\ ClientAtRest /\ DocsAtRest /\ HandlerAtRest /\ CollectAtRest /\ CodecAtRest /\ SanAtRest /\ WrapAtRest /\ ValidAtRest /\ ExtractAtRest /\ TaskAtRest /\ LspAtRest /\ RunAtRest /\ QueueWorkerAtRest /\ PlanAtRest /\ DirectAtRest /\ ToolsAtRest /\ McpServerAtRest
    /\ McpAtRest

\* The orders in which a config may list its servers.
Configs ==
    {<<n>> : n \in ServerNames} \cup
    {c \in ServerNames \X ServerNames : c[1] # c[2]} \cup
    {c \in ServerNames \X ServerNames \X ServerNames :
        c[1] # c[2] /\ c[1] # c[3] /\ c[2] # c[3]}

NextMcp ==
    \/ \E config \in Configs : AddServers(config)
    \/ \E report \in [ServerNames -> ToolLists] : StartAll(report)
    \/ RegisterClientTools

SpecMcp == InitMcp /\ [][NextMcp]_vars

(***************************************************************************)
(* Schema sanitising (mcp.py).  A JSON schema is a dict: a function from   *)
(* its keys to their values.  The value of "type" is either a string or a  *)
(* list of strings, the value of "anyOf" / "oneOf" a list of schemas, of   *)
(* "properties" a dict of schemas, of "items" a schema, of "required" a    *)
(* list of names.                                                          *)
(***************************************************************************)
MaxPasses == 2

TStr(t) == [list |-> FALSE, of |-> <<t>>]
TList(ts) == [list |-> TRUE, of |-> ts]

TypeNames == {"integer", "null"}
TypeValues == {TStr(t) : t \in TypeNames} \cup {TList(<<"integer", "null">>), TList(<<"null">>)}

\* The schemas without sub-schemas.
Leaves == {<<>>} \cup {[type |-> t] : t \in TypeValues}

UnionKeywords == <<"anyOf", "oneOf">>

Key(k, v) == [x \in {k} |-> v]

DictUpdate(d, e) == [k \in DOMAIN d \cup DOMAIN e |-> IF k \in DOMAIN e THEN e[k] ELSE d[k]]

DictPop(d, k) == [x \in DOMAIN d \ {k} |-> d[x]]

\* The schemas made of one keyword over the schemas of S.
Over(S) ==
    {Key(kw, <<v>>) : kw \in {"anyOf", "oneOf"}, v \in S}
        \cup {Key(kw, <<v, [type |-> TStr("null")]>>) : kw \in {"anyOf", "oneOf"}, v \in S}
        \cup {[type |-> TStr("object"), properties |-> Key("p", v)] : v \in S}
        \cup {[type |-> TStr("array"), items |-> v] : v \in S}

InputSchemas == Leaves \cup Over(Leaves) \cup Over(Over(Leaves))

\* v.get("type") is truthy
HasType(v) == "type" \in DOMAIN v /\ v["type"].of # <<>>

\* v.get("type") == "null"
IsNull(v) == "type" \in DOMAIN v /\ v["type"] = TStr("null")

\* types = [v.get("type") for v in variants if v.get("type") and v.get("type") != "null"]
VariantTypes(variants) ==
    SelectSeq([i \in DOMAIN variants |->
                  IF HasType(variants[i]) /\ ~IsNull(variants[i])
                  THEN <<variants[i]["type"]>> ELSE <<>>],
              LAMBDA t : t # <<>>)

\* The keys other than "type" of the first variant whose type is not "null".
VariantExtra(variants) ==
    LET idx == {i \in DOMAIN variants : ~IsNull(variants[i])}
    IN  IF idx = {} THEN <<>>
        ELSE LET v == variants[CHOOSE i \in idx : \A j \in idx : i <= j]
             IN  DictPop(v, "type")

\* One turn of the loop over ("anyOf", "oneOf").
FlattenUnion(schema, keyword) ==
    IF keyword \notin DOMAIN schema THEN schema
    ELSE LET variants == schema[keyword]
             types == VariantTypes(variants)
             popped == DictPop(schema, keyword)
             typed == DictUpdate(popped,
                         [type |-> IF types # <<>> THEN types[1][1] ELSE TStr("string")])
         IN  DictUpdate(typed, VariantExtra(variants))

\* An array "type" becomes its first entry other than "null".
FlattenArrayType(schema) ==
    IF "type" \in DOMAIN schema /\ schema["type"].list
    THEN LET types == SelectSeq(schema["type"].of, LAMBDA t : t # "null")
         IN  DictUpdate(schema,
                 [type |-> IF types # <<>> THEN TStr(types[1]) ELSE TStr("string")])
    ELSE schema

EnsureType(schema) ==
    IF "type" \notin DOMAIN schema /\ "properties" \notin DOMAIN schema
    THEN DictUpdate(schema, [type |-> TStr("string")])
    ELSE schema

RECURSIVE _sanitize_schema(_)
_sanitize_schema(schema) ==
    LET flat == EnsureType(FlattenArrayType(
                    FlattenUnion(FlattenUnion(schema, UnionKeywords[1]), UnionKeywords[2])))
    IN  [k \in DOMAIN flat |->
            IF k = "properties"
            THEN [p \in DOMAIN flat[k] |-> _sanitize_schema(flat[k][p])]
            ELSE IF k = "items" THEN _sanitize_schema(flat[k])
            ELSE flat[k]]

\* get_tool_schemas: "required" is added when missing, then the tool's own
\* inputSchema is sanitised in place and sent in the registration.
SanitizeInputSchema ==
    /\ Len(sanitized) < MaxPasses
    /\ LET required == IF "required" \in DOMAIN input_schema THEN input_schema
                       ELSE DictUpdate(input_schema, [required |-> <<>>])
       IN  input_schema' = _sanitize_schema(required)
    /\ sanitized' = Append(sanitized, input_schema')
    /\ UNCHANGED notSanVars

InitSan ==
    /\ OrchAtRest /\ PoolAtRest /\ ClientAtRest /\ DocsAtRest /\ HandlerAtRest /\ WrapAtRest /\ ValidAtRest /\ ExtractAtRest /\ TaskAtRest /\ LspAtRest /\ RunAtRest /\ QueueWorkerAtRest /\ PlanAtRest /\ DirectAtRest /\ ToolsAtRest /\ McpServerAtRest
    /\ CollectAtRest /\ CodecAtRest /\ McpAtRest
    /\ input_schema \in InputSchemas
    /\ sanitized = <<>>

NextSan == SanitizeInputSchema

SpecSan == InitSan /\ [][NextSan]_vars

(***************************************************************************)
(* conversation/invokeClientTool (client.py).  A Python value is a record  *)
(* of its kind and its content: a list of values, a dict from keys to      *)
(* values, a string, None, or an exception on its way up.                  *)
(***************************************************************************)
MaxInvocations == 2

PyList(items) == [kind |-> "list", list |-> items]
PyDict(d) == [kind |-> "dict", dict |-> d]
PyString(s) == [kind |-> "str", str |-> s]
PyNone == [kind |-> "none"]
Raise(e) == [kind |-> "raise", raise |-> e]

\* d.get(key, default)
Get(d, key, default) == IF key \in DOMAIN d.dict THEN d.dict[key] ELSE default

\* The keys of the dicts below in the order they are written.
KeyOrder == <<"type", "text", "result", "output", "message", "content", "value", "status">>

\* repr() with quote q = "'" and json.dumps() with q = "\"" of a value.
RECURSIVE Repr(_, _), ReprItems(_, _), ReprKeys(_, _, _)
Repr(x, q) ==
    CASE x.kind = "str" -> q \o x.str \o q
      [] x.kind = "none" -> IF q = "'" THEN "None" ELSE "null"
      [] x.kind = "list" -> "[" \o ReprItems(x.list, q) \o "]"
      [] x.kind = "dict" -> "{" \o ReprKeys(x.dict, SelectSeq(KeyOrder, LAMBDA k : k \in DOMAIN x.dict), q) \o "}"
ReprItems(items, q) ==
    IF items = <<>> THEN ""
    ELSE Repr(Head(items), q) \o (IF Len(items) > 1 THEN ", " ELSE "") \o ReprItems(Tail(items), q)
ReprKeys(d, keys, q) ==
    IF keys = <<>> THEN ""
    ELSE q \o Head(keys) \o q \o ": " \o Repr(d[Head(keys)], q)
            \o (IF Len(keys) > 1 THEN ", " ELSE "") \o ReprKeys(d, Tail(keys), q)

\* str(x)
ToStr(x) == IF x.kind = "str" THEN x ELSE PyString(Repr(x, "'"))

\* json.dumps(x)
JsonDumps(x) == PyString(Repr(x, "\""))

TextItem(value) == PyDict([type |-> PyString("text"), value |-> PyString(value)])

\* What an executor of TOOL_EXECUTORS may do with its input.
ExecutorOutcomes ==
    { PyList(<<TextItem("hello")>>),
      PyList(<<TextItem("one"), TextItem("two")>>),
      PyList(<<>>),
      PyList(<<PyDict([type |-> PyString("text")])>>),
      PyList(<<PyString("hello")>>),
      PyDict([result |-> PyString("success"), output |-> PyString("done")]),
      PyDict([result |-> PyString("error"), message |-> PyString("failed")]),
      PyDict([result |-> PyString("success")]),
      PyString("plain string"),
      PyNone,
      Raise("ValueError"), Raise("OSError"), Raise("KeyError") }

\* What MCPServer.call_tool may do.
McpOutcomes ==
    { PyDict([content |-> PyList(<<PyDict([type |-> PyString("text"), text |-> PyString("found")])>>)]),
      PyDict([content |-> PyList(<<PyDict([type |-> PyString("text"), text |-> PyString("a")]),
                                   PyString("b")>>)]),
      PyDict([content |-> PyList(<<PyDict([value |-> PyString("v")])>>)]),
      PyDict([content |-> PyList(<<>>)]),
      Raise("TimeoutError"), Raise("RuntimeError") }

\* The started manager of the invocations: one server with one tool.
InvokeServers == <<[name |-> "fs", tools |-> <<"search">>]>>

\* TOOL_EXECUTORS.get(tool_name) finds an executor.
LocalToolNames == {"read_file"}

\* params of the request: the name is under "name", under "toolName" or absent.
InvokeNames == {"mcp_fs_search", "read_file", "nope"}
InvokeParams == {<<>>} \cup {[name |-> n] : n \in InvokeNames} \cup {[toolName |-> n] : n \in InvokeNames}

\* params.get("name", params.get("toolName", "unknown"))
ToolNameOf(params) ==
    IF "name" \in DOMAIN params THEN params["name"]
    ELSE IF "toolName" \in DOMAIN params THEN params["toolName"] ELSE "unknown"

is_mcp_tool(tool_name) == tool_name \in DOMAIN tool_map

\* The parts ClientMCPManager.call_tool joins: the truthy text (or value) of
\* the dict items and the str items of the content.
RECURSIVE Parts(_)
Parts(content) ==
    IF content = <<>> THEN <<>>
    ELSE LET item == Head(content)
             text == IF item.kind = "dict"
                     THEN Get(item, "text", Get(item, "value", PyString("")))
                     ELSE IF item.kind = "str" THEN item ELSE PyString("")
         IN  (IF text.str # "" THEN <<text.str>> ELSE <<>>) \o Parts(Tail(content))

RECURSIVE JoinLines(_)
JoinLines(parts) ==
    IF parts = <<>> THEN ""
    ELSE Head(parts) \o (IF Len(parts) > 1 THEN "\n" ELSE "") \o JoinLines(Tail(parts))

\* ClientMCPManager.call_tool: always a string.
call_tool(tool_name, outcome) ==
    IF ~is_mcp_tool(tool_name) THEN PyString("Unknown MCP tool: " \o tool_name)
    ELSE LET original_name == tool_map[tool_name][2]
         IN  IF outcome = Raise("TimeoutError")
             THEN PyString("MCP tool '" \o original_name \o "' timed out")
             ELSE IF outcome.kind = "raise"
             THEN PyString("MCP tool '" \o original_name \o "' error: " \o outcome.raise)
             ELSE LET parts == Parts(Get(outcome, "content", PyList(<<>>)).list)
                  IN  IF parts # <<>> THEN PyString(JoinLines(parts)) ELSE JsonDumps(outcome)

Success(content) == PyList(<<PyDict([content |-> PyList(content), status |-> PyString("success")]), PyNone>>)

CaughtErrors == {"OSError", "SubprocessError", "JSONDecodeError", "ValueError", "TypeError"}

\* _execute_client_tool
_execute_client_tool(tool_name, mcp, executor) ==
    IF is_mcp_tool(tool_name)
    THEN Success(<<PyDict([value |-> call_tool(tool_name, mcp)])>>)
    ELSE IF tool_name \notin LocalToolNames
    THEN PyList(<<TextItem("Error: Unknown tool: " \o tool_name)>>)
    ELSE IF executor.kind = "raise" /\ executor.raise \in CaughtErrors
    THEN PyList(<<TextItem("Error: " \o executor.raise)>>)
    ELSE executor

\* The result as it stands, without the wrapping.
Unwrapped(result) == result

\* _wrap_registered_tool_result
_wrap_registered_tool_result(result) ==
    CASE result.kind = "raise" -> result
      [] result.kind = "list" ->
            IF \E i \in DOMAIN result.list : result.list[i].kind # "dict"
            THEN Raise("AttributeError")
            ELSE Success([i \in DOMAIN result.list |->
                            PyDict([value |-> Get(result.list[i], "value", ToStr(result.list[i]))])])
      [] result.kind = "dict" ->
            LET status == IF Get(result, "result", PyNone) = PyString("error")
                          THEN "error" ELSE "success"
                text == Get(result, "output", Get(result, "message", JsonDumps(result)))
            IN  PyList(<<PyDict([content |-> PyList(<<PyDict([value |-> text])>>),
                                 status |-> PyString(status)]), PyNone>>)
      [] OTHER -> Success(<<PyDict([value |-> ToStr(result)])>>)

\* _handle_server_request, method conversation/invokeClientTool: the result
\* goes to _send_response; an exception leaves the handler without a response.
HandleInvokeClientTool(params, mcp, executor) ==
    /\ tool_handler = "alive"
    /\ Len(tool_responses) < MaxInvocations
    /\ LET tool_name == ToolNameOf(params)
           result == _execute_client_tool(tool_name, mcp, executor)
           response == IF is_mcp_tool(tool_name) THEN result
                       ELSE _wrap_registered_tool_result(result)
       IN  IF response.kind = "raise"
           THEN tool_handler' = "dead" /\ UNCHANGED tool_responses
           ELSE tool_responses' = Append(tool_responses, response) /\ UNCHANGED tool_handler
    /\ UNCHANGED notWrapVars

InitWrap ==
    /\ OrchAtRest /\ PoolAtRest /\ ClientAtRest /\ DocsAtRest /\ HandlerAtRest /\ ValidAtRest /\ ExtractAtRest /\ TaskAtRest /\ LspAtRest /\ RunAtRest /\ QueueWorkerAtRest /\ PlanAtRest /\ DirectAtRest /\ ToolsAtRest /\ McpServerAtRest
    /\ CollectAtRest /\ CodecAtRest /\ SanAtRest /\ WrapAtRest
    /\ servers = InvokeServers
    /\ tool_map = BuildToolMap(PairsOf(InvokeServers), EmptyDict)
    /\ registered = BuiltinToolNames \o <<"mcp_fs_search">>

NextWrap ==
    \E params \in InvokeParams, mcp \in McpOutcomes, executor \in ExecutorOutcomes :
        HandleInvokeClientTool(params, mcp, executor)

SpecWrap == InitWrap /\ [][NextWrap]_vars

(***************************************************************************)
(* Soft validation (schema_validation.py).  Strings are sequences of       *)
(* characters here; numbers are ints, floats in tenths, or infinity        *)
(* (json.loads reads 1e999 as inf).                                        *)
(***************************************************************************)
MaxCandidateKeys == 2

PyInt(n) == [kind |-> "int", n |-> n]
PyFloat(t) == [kind |-> "float", tenths |-> t]
PyInfinity == [kind |-> "float", inf |-> TRUE]
PyBool(b) == [kind |-> "bool", b |-> b]

IsInfinity(v) == v.kind = "float" /\ "inf" \in DOMAIN v

\* A field definition of a schema: a dict with an optional "type" ("" when
\* absent) and "required" (False when absent), or something that is no dict.
FieldDef(type, required) == [dict |-> TRUE, type |-> type, required |-> required]
NotADict == [dict |-> FALSE, type |-> "", required |-> FALSE]

AnswerSchemas ==
    { <<>>,
      << <<"count", FieldDef("integer", TRUE)>>, <<"note", FieldDef("string", FALSE)>> >>,
      << <<"count", FieldDef("number", FALSE)>>, <<"flag", FieldDef("boolean", TRUE)>> >>,
      << <<"_validation", FieldDef("object", FALSE)>>, <<"count", FieldDef("integer", TRUE)>> >>,
      << <<"note", FieldDef("", TRUE)>>, <<"flag", NotADict>>, <<"count", FieldDef("array", TRUE)>> >> }

CandidateKeys == {"count", "note", "flag", "_validation", "other"}

CandidateValues ==
    { PyInt(3), PyInt(0), PyFloat(30), PyFloat(37), PyInfinity, PyBool(TRUE),
      PyString(<<"3">>), PyString(<<"3", ".", "7">>), PyString(<<"Y", "e", "s">>),
      PyNone, PyList(<<>>) }

\* The dict candidates: at most MaxCandidateKeys keys.
Candidates ==
    UNION {[K -> CandidateValues] :
              K \in {K \in SUBSET CandidateKeys : Cardinality(K) <= MaxCandidateKeys}}

\* float(s) for a string: digits, digits "." digit, or "inf"; anything else
\* is a ValueError (None here).
FloatOfString(s) ==
    IF IsNumeral(s) THEN PyFloat(10 * int(s))
    ELSE IF Len(s) >= 3 /\ s[Len(s) - 1] = "." /\ IsNumeral(SubSeq(s, 1, Len(s) - 2))
            /\ IsNumeral(<<s[Len(s)]>>)
    THEN PyFloat(10 * int(SubSeq(s, 1, Len(s) - 2)) + int(<<s[Len(s)]>>))
    ELSE IF s = <<"i", "n", "f">> THEN PyInfinity
    ELSE PyNone

\* str.lower() on the letters of this model.
Lower(s) == [i \in DOMAIN s |-> IF s[i] = "Y" THEN "y" ELSE s[i]]

\* str(value) for the values of this model.
StrOf(value) ==
    CASE value.kind = "str" -> value
      [] value.kind = "int" -> PyString(Str(value.n))
      [] value.kind = "float" ->
            IF IsInfinity(value) THEN PyString(<<"i", "n", "f">>)
            ELSE PyString(Str(value.tenths \div 10) \o <<".">> \o Str(value.tenths % 10))
      [] value.kind = "bool" ->
            PyString(IF value.b THEN <<"T", "r", "u", "e">> ELSE <<"F", "a", "l", "s", "e">>)
      [] value.kind = "list" -> PyString(<<"[", "]">>)
      [] OTHER -> PyString(<<"{", ".", ".", ".", "}">>)

_coerce_number(value) ==
    IF value.kind \in {"int", "float", "bool"} THEN value
    ELSE IF value.kind = "str" THEN FloatOfString(value.str)
    ELSE PyNone

\* int(value) of float infinity raises OverflowError.
_coerce_integer(value) ==
    IF value.kind = "int" THEN value
    ELSE IF value.kind = "float"
    THEN IF IsInfinity(value) THEN Raise("OverflowError")
         ELSE IF value.tenths % 10 = 0 THEN PyInt(value.tenths \div 10) ELSE PyNone
    ELSE IF value.kind = "str"
    THEN IF IsNumeral(value.str) THEN PyInt(int(value.str)) ELSE PyNone
    ELSE PyNone

_coerce_boolean(value) ==
    IF value.kind = "bool" THEN value
    ELSE IF value.kind = "str" /\ Lower(value.str) \in {<<"t", "r", "u", "e">>, <<"1">>, <<"y", "e", "s">>}
    THEN PyBool(TRUE)
    ELSE IF value.kind = "str" /\ Lower(value.str) \in {<<"f", "a", "l", "s", "e">>, <<"0">>, <<"n", "o">>}
    THEN PyBool(FALSE)
    ELSE IF value.kind = "int" THEN PyBool(value.n # 0)
    ELSE IF value.kind = "float" THEN PyBool(IsInfinity(value) \/ value.tenths # 0)
    ELSE PyNone

\* Best-effort coercion: the value itself where the coercion gives None.
_coerce_value(value, expected_type) ==
    LET result == CASE expected_type = "number" -> _coerce_number(value)
                    [] expected_type = "integer" -> _coerce_integer(value)
                    [] expected_type = "boolean" -> _coerce_boolean(value)
                    [] OTHER -> value
    IN  IF expected_type = "string"
        THEN (IF value = PyNone THEN value ELSE StrOf(value))
        ELSE IF result = PyNone THEN value ELSE result

\* a == b in Python: numbers of different types are equal when their values are.
Tenths(v) ==
    CASE v.kind = "int" -> 10 * v.n
      [] v.kind = "bool" -> IF v.b THEN 10 ELSE 0
      [] v.kind = "float" /\ ~IsInfinity(v) -> v.tenths
      [] OTHER -> -1
PyEq(a, b) ==
    \/ a = b
    \/ /\ a.kind \in {"int", "float", "bool"} /\ b.kind \in {"int", "float", "bool"}
       /\ ~IsInfinity(a) /\ ~IsInfinity(b)
       /\ Tenths(a) = Tenths(b)

Names(schema) == [i \in DOMAIN schema |-> schema[i][1]]
DefOf(schema, name) == schema[CHOOSE i \in DOMAIN schema : schema[i][1] = name][2]

\* schema_fields = {k for k, v in schema.items() if isinstance(v, dict)}
SchemaFields(schema) == {schema[i][1] : i \in {j \in DOMAIN schema : schema[j][2].dict}}

\* The warnings of the loop over the schema, in its order.
RECURSIVE FieldWarnings(_, _)
FieldWarnings(data, schema) ==
    IF schema = <<>> THEN <<>>
    ELSE LET field_name == schema[1][1]
             field_def == schema[1][2]
             here == IF ~field_def.dict THEN <<>>
                     ELSE IF field_name \in DOMAIN data
                     THEN IF field_def.type # ""
                             /\ ~PyEq(_coerce_value(data[field_name], field_def.type), data[field_name])
                          THEN <<[field |-> field_name, coerced |-> data[field_name].kind,
                                  to |-> field_def.type]>>
                          ELSE <<>>
                     ELSE IF field_def.required
                     THEN <<[field |-> field_name, coerced |-> "", to |-> "missing"]>>
                     ELSE <<>>
         IN  here \o FieldWarnings(data, Tail(schema))

\* soft_validate(data, schema) for a dict: the fields of the schema that are
\* in data go to parsed, coerced; the required ones that are not to missing;
\* the keys of data that are no schema field to extras.  An exception of a
\* coercion leaves the function.
soft_validate(data, schema) ==
    LET fields == SchemaFields(schema)
        present == fields \cap DOMAIN data
        parsed == [f \in present |->
                      IF DefOf(schema, f).type # ""
                      THEN _coerce_value(data[f], DefOf(schema, f).type)
                      ELSE data[f]]
        raising == {f \in present : parsed[f].kind = "raise"}
    IN  IF raising # {}
        THEN [NoValidation EXCEPT !.raised = "OverflowError"]
        ELSE [parsed |-> parsed,
              extras |-> [k \in DOMAIN data \ fields |-> data[k]],
              missing |-> SelectSeq(Names(schema),
                              LAMBDA f : f \in fields /\ f \notin DOMAIN data
                                          /\ DefOf(schema, f).required),
              warnings |-> FieldWarnings(data, schema),
              raw |-> PyDict(data),
              raised |-> ""]

\* build_answer_from_validation: parsed, then extras, then "_validation".
build_answer_from_validation(validation_result) ==
    DictUpdate(DictUpdate(validation_result.parsed, validation_result.extras),
               [_validation |-> PyDict([missing |-> validation_result.missing,
                                        warnings |-> validation_result.warnings])])

SoftValidate(data, schema) ==
    /\ vpc = "start"
    /\ candidate' = PyDict(data)
    /\ answer_schema' = schema
    /\ validation' = soft_validate(data, schema)
    /\ vpc' = "validated"
    /\ UNCHANGED <<answer, revalidation>>
    /\ UNCHANGED notValidVars

BuildAnswer ==
    /\ vpc = "validated"
    /\ validation.raised = ""
    /\ answer' = build_answer_from_validation(validation)
    /\ vpc' = "built"
    /\ UNCHANGED <<candidate, answer_schema, validation, revalidation>>
    /\ UNCHANGED notValidVars

Revalidate ==
    /\ vpc = "built"
    /\ revalidation' = soft_validate(answer, answer_schema)
    /\ vpc' = "revalidated"
    /\ UNCHANGED <<candidate, answer_schema, validation, answer>>
    /\ UNCHANGED notValidVars

InitValid ==
    /\ OrchAtRest /\ PoolAtRest /\ ClientAtRest /\ DocsAtRest /\ HandlerAtRest /\ ExtractAtRest /\ TaskAtRest /\ LspAtRest /\ RunAtRest /\ QueueWorkerAtRest /\ PlanAtRest /\ DirectAtRest /\ ToolsAtRest /\ McpServerAtRest
    /\ CollectAtRest /\ CodecAtRest /\ McpAtRest /\ SanAtRest /\ WrapAtRest /\ ValidAtRest

NextValid ==
    \/ \E data \in Candidates, schema \in AnswerSchemas : SoftValidate(data, schema)
    \/ BuildAnswer
    \/ Revalidate

SpecValid == InitValid /\ [][NextValid]_vars

(***************************************************************************)
(* JSON extraction from a reply (mcp_agent.py).  Texts are sequences of    *)
(* characters: "QUOTE" the double quote, "TICK" the backquote, "LF" the    *)
(* newline.                                                                *)
(***************************************************************************)
MaxKeys == 2

\* The concatenation of the characters of a key.
RECURSIVE KeyName(_)
KeyName(chars) == IF chars = <<>> THEN "" ELSE Head(chars) \o KeyName(Tail(chars))

JsonKeys == <<"a", "b", "c", "count", "other">>

\* The characters of a key.
KeyChars(k) ==
    CASE k = "count" -> <<"c", "o", "u", "n", "t">>
      [] k = "other" -> <<"o", "t", "h", "e", "r">>
      [] OTHER -> <<k>>

\* json.dumps(x): separators ", " and ": ", keys in their order.
RECURSIVE JsonText(_), JsonMembers(_, _), JsonElements(_)
JsonText(x) ==
    CASE x.kind = "str" -> <<"QUOTE">> \o x.str \o <<"QUOTE">>
      [] x.kind = "int" -> Str(x.n)
      [] x.kind = "list" -> <<"[">> \o JsonElements(x.list) \o <<"]">>
      [] x.kind = "dict" ->
            <<"{">> \o JsonMembers(x.dict, SelectSeq(JsonKeys, LAMBDA k : k \in DOMAIN x.dict)) \o <<"}">>
JsonMembers(d, keys) ==
    IF keys = <<>> THEN <<>>
    ELSE <<"QUOTE">> \o KeyChars(Head(keys)) \o <<"QUOTE", ":", " ">> \o JsonText(d[Head(keys)])
            \o (IF Len(keys) > 1 THEN <<",", " ">> ELSE <<>>) \o JsonMembers(d, Tail(keys))
JsonElements(items) ==
    IF items = <<>> THEN <<>>
    ELSE JsonText(Head(items)) \o (IF Len(items) > 1 THEN <<",", " ">> ELSE <<>>)
            \o JsonElements(Tail(items))

\* The text without its leading whitespace.
RECURSIVE LStrip(_)
LStrip(t) == IF t # <<>> /\ t[1] \in {" ", "LF"} THEN LStrip(Tail(t)) ELSE t

\* The number of leading digits of t.
RECURSIVE DigitRun(_)
DigitRun(t) == IF t # <<>> /\ IsNumeral(<<t[1]>>) THEN 1 + DigitRun(Tail(t)) ELSE 0

\* The JSON decoder: the value at the head of a text and the rest of the
\* text, or ok = FALSE where the text does not start with a value.
ParseFail == [ok |-> FALSE]
Parsed(v, rest) == [ok |-> TRUE, v |-> v, rest |-> rest]

\* A string: up to the next quote; newlines must be escaped.
ParseString(t) ==
    LET close == Find(Tail(t), <<"QUOTE">>)
    IN  IF close = -1 THEN ParseFail
        ELSE IF \E i \in 2 .. close + 1 : t[i] \in {"LF", "BS"} THEN ParseFail
        ELSE Parsed(PyString(SubSeq(t, 2, close + 1)), SubSeq(t, close + 3, Len(t)))

RECURSIVE ParseValue(_), ParseMembers(_, _), ParseElements(_, _)
ParseValue(t0) ==
    LET t == LStrip(t0)
    IN  IF t = <<>> THEN ParseFail
        ELSE CASE t[1] = "{" ->
                    LET u == LStrip(Tail(t))
                    IN  IF u # <<>> /\ u[1] = "}" THEN Parsed(PyDict(<<>>), Tail(u))
                        ELSE ParseMembers(u, <<>>)
               [] t[1] = "[" ->
                    LET u == LStrip(Tail(t))
                    IN  IF u # <<>> /\ u[1] = "]" THEN Parsed(PyList(<<>>), Tail(u))
                        ELSE ParseElements(u, <<>>)
               [] t[1] = "QUOTE" -> ParseString(t)
               [] IsNumeral(<<t[1]>>) ->
                    Parsed(PyInt(int(SubSeq(t, 1, DigitRun(t)))), SubSeq(t, DigitRun(t) + 1, Len(t)))
               [] OTHER -> ParseFail
ParseMembers(t, d) ==
    IF t = <<>> \/ t[1] # "QUOTE" THEN ParseFail
    ELSE LET k == ParseString(t)
         IN  IF ~k.ok THEN ParseFail
             ELSE LET u == LStrip(k.rest)
                  IN  IF u = <<>> \/ u[1] # ":" THEN ParseFail
                      ELSE LET val == ParseValue(Tail(u))
                           IN  IF ~val.ok THEN ParseFail
                               ELSE LET w == LStrip(val.rest)
                                        d2 == DictUpdate(d, Key(KeyName(k.v.str), val.v))
                                    IN  IF w = <<>> THEN ParseFail
                                        ELSE IF w[1] = "}" THEN Parsed(PyDict(d2), Tail(w))
                                        ELSE IF w[1] = "," THEN ParseMembers(LStrip(Tail(w)), d2)
                                        ELSE ParseFail
ParseElements(t, items) ==
    LET val == ParseValue(t)
    IN  IF ~val.ok THEN ParseFail
        ELSE LET w == LStrip(val.rest)
             IN  IF w = <<>> THEN ParseFail
                 ELSE IF w[1] = "]" THEN Parsed(PyList(Append(items, val.v)), Tail(w))
                 ELSE IF w[1] = "," THEN ParseElements(LStrip(Tail(w)), Append(items, val.v))
                 ELSE ParseFail

\* json.loads(text): the value when the whole text is one value, else
\* JSONDecodeError (ok = FALSE).
JsonLoads(text) ==
    LET r == ParseValue(text)
    IN  IF r.ok /\ Strip(r.rest) = <<>> THEN r ELSE ParseFail

FenceJson == <<"TICK", "TICK", "TICK", "j", "s", "o", "n">>
Fence == <<"TICK", "TICK", "TICK">>

\* text.split(sep, 1)[1] where sep is in text
AfterFirst(text, sep) == SubSeq(text, Find(text, sep) + Len(sep) + 1, Len(text))

\* text.split(sep, 1)[0]
BeforeFirst(text, sep) == IF Find(text, sep) = -1 THEN text ELSE SubSeq(text, 1, Find(text, sep))

\* The index at which the braces opened at index i are all closed, counting
\* every brace of the text, or 0 when they never are.
RECURSIVE BraceEnd(_, _, _)
BraceEnd(text, i, depth) ==
    IF i > Len(text) THEN 0
    ELSE IF text[i] = "{" THEN BraceEnd(text, i + 1, depth + 1)
    ELSE IF text[i] = "}"
    THEN IF depth = 1 THEN i ELSE BraceEnd(text, i + 1, depth - 1)
    ELSE BraceEnd(text, i + 1, depth)

Extracted(mode, r) == [found |-> TRUE, mode |-> mode, v |-> r.v]

\* _extract_json_from_reply
_extract_json_from_reply(r) ==
    LET text == Strip(r)
        bare == JsonLoads(text)
        json_block == JsonLoads(Strip(BeforeFirst(AfterFirst(text, FenceJson), Fence)))
        block == JsonLoads(Strip(BeforeFirst(AfterFirst(text, Fence), Fence)))
        start == Find(text, <<"{">>) + 1
        end == BraceEnd(text, start, 0)
        object == JsonLoads(SubSeq(text, start, end))
    IN  IF text # <<>> /\ text[1] = "{" /\ bare.ok THEN Extracted(1, bare)
        ELSE IF Find(text, FenceJson) # -1 /\ json_block.ok THEN Extracted(2, json_block)
        ELSE IF Find(text, Fence) # -1 /\ block.ok THEN Extracted(3, block)
        ELSE IF start >= 1 /\ end # 0 /\ object.ok THEN Extracted(4, object)
        ELSE NotExtracted

\* The values of the objects of the replies.
JsonValues ==
    { PyString(<<"x">>), PyString(<<"}">>), PyString(<<"{", "x">>), PyInt(1),
      PyList(<<>>), PyDict([c |-> PyString(<<"x">>)]) }

JsonObjects ==
    {PyDict(d) : d \in UNION {[K -> JsonValues] :
                                 K \in {K \in SUBSET {"a", "b"} : Cardinality(K) <= MaxKeys}}}

ReplyFormats == {"bare", "json-fenced", "fenced", "prose"}

Here == <<"H", "e", "r", "e", ":", "LF">>
Done == <<"LF", "D", "o", "n", "e", ".">>

\* The reply that carries the text of an object in a format.
Format(text, format) ==
    CASE format = "bare" -> text
      [] format = "json-fenced" -> Here \o FenceJson \o <<"LF">> \o text \o <<"LF">> \o Fence \o Done
      [] format = "fenced" -> Here \o Fence \o <<"LF">> \o text \o <<"LF">> \o Fence
      [] format = "prose" -> <<"I", "t", " ", "i", "s", " ">> \o text \o <<" ", "o", "k", ".">>

\* The replies without JSON.
PlainReplies == {<<>>, <<"F", "i", "n", "e", ".">>, <<"{", "o", "o", "p", "s">>,
                 Fence \o <<"x", "=", "1">> \o Fence}

\* The worker's reply carries an object in one of the formats.
ExtractFromReply(obj, format) ==
    /\ reply_format = "start"
    /\ reply_obj' = obj
    /\ reply_format' = format
    /\ reply_text' = Format(JsonText(obj), format)
    /\ extracted' = _extract_json_from_reply(reply_text')
    /\ UNCHANGED notExtractVars

\* The worker's reply carries no JSON.
ExtractFromPlain(text) ==
    /\ reply_format = "start"
    /\ reply_format' = "plain"
    /\ reply_text' = text
    /\ extracted' = _extract_json_from_reply(text)
    /\ UNCHANGED reply_obj
    /\ UNCHANGED notExtractVars

InitExtract ==
    /\ OrchAtRest /\ PoolAtRest /\ ClientAtRest /\ DocsAtRest /\ HandlerAtRest /\ TaskAtRest /\ LspAtRest /\ RunAtRest /\ QueueWorkerAtRest /\ PlanAtRest /\ DirectAtRest /\ ToolsAtRest /\ McpServerAtRest
    /\ CollectAtRest /\ CodecAtRest /\ McpAtRest /\ SanAtRest /\ WrapAtRest
    /\ ValidAtRest /\ ExtractAtRest

NextExtract ==
    \/ \E obj \in JsonObjects, format \in ReplyFormats : ExtractFromReply(obj, format)
    \/ \E text \in PlainReplies : ExtractFromPlain(text)

SpecExtract == InitExtract /\ [][NextExtract]_vars

(***************************************************************************)
(* The turns of one worker: MCPAgentServer._handle_execute_task            *)
(* (mcp_agent.py) and WorkerThread._handle_task (orchestrator.py).         *)
(***************************************************************************)
MaxTurns == 2

WorkerKinds == {"mcp", "queue"}

\* What the conversation call of a task does; the client of an MCP agent is
\* created by the first task and that may fail too.
CallOutcomes == {"ok", "raises", "init_raises"}

\* The JSON values a reply may carry, and the replies.
TaskValues ==
    { PyDict([count |-> PyInt(3)]), PyDict([count |-> PyString(<<"3">>)]), PyDict(<<>>),
      PyDict([other |-> PyString(<<"x">>)]), PyList(<<>>), PyInt(1), PyString(<<"x">>) }
TaskReplies ==
    {Format(JsonText(v), f) : v \in TaskValues, f \in {"bare", "json-fenced"}}
        \cup {<<>>, <<"F", "i", "n", "e", ".">>}

\* The parts of the prompt of _handle_execute_task: the system instructions
\* only while there is no conversation.
AgentParts(has_context) ==
    (IF card.system_prompt /\ conversation_id = 0 THEN <<"system_instructions">> ELSE <<>>)
        \o (IF has_context THEN <<"shared_context">> ELSE <<>>)
        \o <<"prompt">>
        \o (IF card.answer_schema # <<>> THEN <<"response_format">> ELSE <<>>)

\* The parts of the prompt of _handle_task.
WorkerParts(has_context) ==
    (IF card.system_prompt THEN <<"system_instructions">> ELSE <<>>)
        \o (IF has_context THEN <<"shared_context">> ELSE <<>>)
        \o <<"prompt">>

\* soft_validate(data, schema) for any value: a str is parsed first, a dict
\* is validated, and anything else fails in "field_name in data" or in
\* data.items().
SoftValidateValue(data, schema) ==
    LET not_json == [parsed |-> <<>>, extras |-> <<>>,
                     missing |-> SelectSeq(Names(schema),
                                     LAMBDA f : f \in SchemaFields(schema) /\ DefOf(schema, f).required),
                     warnings |-> <<[field |-> "", coerced |-> "", to |-> "raw reply"]>>,
                     raw |-> data, raised |-> ""]
    IN  CASE data.kind = "dict" -> soft_validate(data.dict, schema)
          [] data.kind = "str" ->
                LET parsed_data == JsonLoads(data.str)
                IN  IF parsed_data.ok /\ parsed_data.v.kind = "dict"
                    THEN soft_validate(parsed_data.v.dict, schema)
                    ELSE not_json
          [] data.kind = "list" -> [NoValidation EXCEPT !.raised = "AttributeError"]
          [] OTHER ->
                [NoValidation EXCEPT !.raised =
                    IF SchemaFields(schema) # {} THEN "TypeError" ELSE "AttributeError"]

\* response_data of _handle_execute_task after a successful conversation
\* call, or the error response of its except clause.
ResponseData(reply_chars) ==
    LET base == [status |-> "success", reply |-> reply_chars]
        parsed_reply == _extract_json_from_reply(reply_chars)
        validation_result == SoftValidateValue(parsed_reply.v, card.answer_schema)
    IN  IF card.answer_schema = <<>> \/ ~parsed_reply.found THEN base
        ELSE IF validation_result.raised # ""
        THEN [status |-> "error", error |-> validation_result.raised]
        ELSE DictUpdate(
                DictUpdate(base,
                    [structured_reply |->
                        DictUpdate(validation_result.parsed, validation_result.extras)]),
                IF validation_result.warnings # <<>>
                THEN [validation_warnings |-> validation_result.warnings] ELSE <<>>)

\* _handle_execute_task
ExecuteTask(has_context, outcome, reply_chars) ==
    /\ worker_kind = "mcp"
    /\ Len(task_log) < MaxTurns
    /\ outcome = "init_raises" => \A i \in DOMAIN task_log : task_log[i].outcome = "init_raises"
    /\ task_log' = Append(task_log,
          [parts |-> IF outcome = "init_raises" THEN <<>> ELSE AgentParts(has_context),
           outcome |-> outcome,
           response |-> IF outcome = "ok" THEN ResponseData(reply_chars)
                        ELSE [status |-> "error", error |-> outcome]])
    /\ conversation_id' = IF outcome = "ok" /\ conversation_id = 0 THEN 1 ELSE conversation_id
    /\ UNCHANGED <<worker_kind, card>>
    /\ UNCHANGED notTaskVars

\* _handle_task
HandleTask(has_context, outcome) ==
    /\ worker_kind = "queue"
    /\ Len(task_log) < MaxTurns
    /\ task_log' = Append(task_log,
          [parts |-> WorkerParts(has_context),
           outcome |-> outcome,
           response |-> [status |-> IF outcome = "ok" THEN "success" ELSE "error"]])
    /\ conversation_id' = IF outcome = "ok" /\ conversation_id = 0 THEN 1 ELSE conversation_id
    /\ UNCHANGED <<worker_kind, card>>
    /\ UNCHANGED notTaskVars

InitTask ==
    /\ OrchAtRest /\ PoolAtRest /\ ClientAtRest /\ DocsAtRest /\ HandlerAtRest /\ LspAtRest /\ RunAtRest /\ QueueWorkerAtRest /\ PlanAtRest /\ DirectAtRest /\ ToolsAtRest /\ McpServerAtRest
    /\ CollectAtRest /\ CodecAtRest /\ McpAtRest /\ SanAtRest /\ WrapAtRest
    /\ ValidAtRest /\ ExtractAtRest
    /\ worker_kind \in WorkerKinds
    /\ card \in [system_prompt : BOOLEAN, answer_schema : AnswerSchemas]
    /\ worker_kind = "queue" => card.answer_schema = <<>>
    /\ conversation_id = 0
    /\ task_log = <<>>

NextTask ==
    \/ \E has_context \in BOOLEAN, outcome \in CallOutcomes, reply_chars \in TaskReplies :
          ExecuteTask(has_context, outcome, reply_chars)
    \/ \E has_context \in BOOLEAN, outcome \in {"ok", "raises"} : HandleTask(has_context, outcome)

SpecTask == InitTask /\ [][NextTask]_vars

(***************************************************************************)
(* The LSP bridge: LSPBridgeManager and LSPServer (lsp_bridge.py).         *)
(***************************************************************************)
MaxLspCalls == 3

\* The language ids with an entry in _EXT_TO_LANG, and the value of
\* _EXT_TO_LANG.get(ext) for an extension it does not hold.
LangIds == {"python", "go"}
NoLang == "None"

\* What the command resolved for a language does when it is run: nothing is
\* configured, shutil.which finds nothing, Popen raises, the process exits at
\* once, the process runs and never answers, the process serves.
CommandKinds == {"none", "not_on_path", "spawn_raises", "exits", "silent", "serves"}

\* The file the caller names and its path.
FilePath == "/ws/a.py"
FileUri == "file:///ws/a.py"
FileKinds == {"no_file", "no_match", "match"}

\* A tuple (file_path, line, character).
PyTuple(path, line, character) ==
    [kind |-> "tuple", path |-> path, line |-> line, character |-> character]

\* _uri_to_path
_uri_to_path(uri) ==
    CASE uri = FileUri -> FilePath
      [] uri = "file:///ws/lib.py" -> "/ws/lib.py"
      [] OTHER -> uri

\* A spawned LSPServer: its process, whether the process answers requests,
\* _diagnostics, the version of the file in _open_docs (0: not opened), and
\* the version of the file the server had when it published the entry of
\* _diagnostics (0: no entry).
Started(process, responds) ==
    [kind |-> "LSPServer", process |-> process, responds |-> responds,
     diagnostics |-> EmptyDict, version |-> 0, published_for |-> 0]

\* The value get_server returns for a server.
ServerObject(lang, server) == [kind |-> "server", language |-> lang, process |-> server.process]

\* The exceptions caught around the writes to the server's stdin.
PipeErrors == {"BrokenPipeError", "OSError"}

\* process.stdin.write and flush.
StdinWrite(server) ==
    IF server.process = "exited" THEN Raise("BrokenPipeError") ELSE PyNone

\* The messages _send_request returns.
ErrorResponse(message) == [kind |-> "response", error |-> message]
ResultResponse(result) == [kind |-> "response", result |-> result]
NoAnswer == [kind |-> "timeout"]

\* resp.get("result")
ResultOf(resp) == IF "result" \in DOMAIN resp THEN resp.result ELSE PyNone

\* not value
Falsy(value) ==
    \/ value.kind = "none"
    \/ value.kind = "list" /\ value.list = <<>>
    \/ value.kind = "str" /\ value.str = ""
    \/ value.kind = "dict" /\ DOMAIN value.dict = {}

\* _send_request: the write, then the wait for the response until the
\* deadline. lsp_answer is what the server sends before the deadline.
_send_request(server, method, lsp_answer) ==
    LET written == StdinWrite(server) IN
    IF written.kind = "raise"
    THEN IF written.raise \in PipeErrors
         THEN ErrorResponse("LSP server pipe broken")
         ELSE written
    ELSE IF server.responds /\ lsp_answer # NoAnswer
         THEN ResultResponse(lsp_answer)
         ELSE ErrorResponse("LSP timeout: " \o method)

\* _send_notification
_send_notification(server) ==
    LET written == StdinWrite(server) IN
    IF written.kind = "raise" /\ written.raise \notin PipeErrors THEN written ELSE PyNone

\* _ensure_open: the version of the document after the call.
_ensure_open(server) == [server EXCEPT !.version = @ + 1]

\* LSPServer.start: Popen raises, or the process is spawned.
ServerStart(kind) ==
    CASE kind = "spawn_raises" -> Raise("FileNotFoundError")
      [] kind = "exits" -> Started("exited", FALSE)
      [] kind = "silent" -> Started("running", FALSE)
      [] OTHER -> Started("running", TRUE)

\* LSPServer.initialize: the request, the notification; what it raises.
ServerInitialize(server) ==
    LET resp == _send_request(server, "initialize", PyDict([capabilities |-> PyDict(EmptyDict)]))
        sent == _send_notification(server)
    IN  IF resp.kind = "raise" THEN resp ELSE sent

\* _resolve_server and shutil.which: the kind of command to run, "none" for
\* (None, None) and "not_on_path" when which finds nothing.
_resolve_server(lang) == IF lang \in DOMAIN lsp_env THEN lsp_env[lang] ELSE "none"

\* The condition under which get_server for a command of this kind runs.
StartCondition(kind) ==
    CASE kind = "none" -> "no_server_configured"
      [] kind = "not_on_path" -> "not_on_path"
      [] kind \in {"spawn_raises", "exits"} -> "start_fails"
      [] kind = "silent" -> "timed_out"
      [] OTHER -> "none"

\* get_server: the new _servers, the returned value and the condition.
get_server(lang) ==
    IF lang \in DOMAIN _servers /\ _servers[lang].process = "running"
    THEN [servers |-> _servers, value |-> ServerObject(lang, _servers[lang]), cond |-> "none"]
    ELSE
      LET kept == DictPop(_servers, lang)
          kind == _resolve_server(lang)
          spawned == ServerStart(kind)
          inited == IF spawned.kind = "raise" THEN spawned ELSE ServerInitialize(spawned)
      IN  IF kind \in {"none", "not_on_path"} \/ inited.kind = "raise"
          THEN [servers |-> kept, value |-> PyNone, cond |-> StartCondition(kind)]
          ELSE [servers |-> DictUpdate(kept, Key(lang, spawned)),
                value |-> ServerObject(lang, spawned), cond |-> StartCondition(kind)]

\* The condition under which a call on a server runs.
CallCondition(server, lsp_answer) ==
    IF server.process = "exited" THEN "server_died"
    ELSE IF ~server.responds \/ lsp_answer = NoAnswer THEN "timed_out"
    ELSE "none"

\* What the servers answer.
Locations == PyList(<<PyDict([uri |-> PyString(FileUri)])>>)
ReferenceAnswers == {NoAnswer, PyNone, PyList(<<>>), Locations}
Symbol(name) ==
    PyDict([name |-> PyString(name),
            location |-> PyDict([uri |-> PyString("file:///ws/lib.py"),
                                 range |-> PyDict([start |-> PyDict([line |-> 3, character |-> 4])])])])
SymbolAnswers ==
    {NoAnswer, PyNone, PyList(<<>>), PyList(<<Symbol("f")>>), PyList(<<Symbol("ff"), Symbol("f")>>),
     PyList(<<Symbol("ff")>>)}
HoverAnswers ==
    {NoAnswer, PyNone, PyDict([contents |-> PyString("def f()")]),
     PyDict([contents |-> PyDict([value |-> PyString("def f()")])]),
     PyDict([contents |-> PyList(<<PyString("def f()"), PyDict([value |-> PyString("doc")])>>)]),
     PyDict([range |-> PyDict(EmptyDict)])}
DiagnosticLists == {PyList(<<>>), PyList(<<PyDict([message |-> PyString("E501")])>>)}

\* find_references and workspace_symbol: resp.get("result") or [].
ResultOrEmpty(resp) ==
    IF resp.kind = "raise" THEN resp
    ELSE IF Falsy(ResultOf(resp)) THEN PyList(<<>>) ELSE ResultOf(resp)

\* _extract_hover_text
_extract_hover_text(contents) ==
    CASE contents.kind = "str" -> contents
      [] contents.kind = "dict" ->
            IF "value" \in DOMAIN contents.dict THEN contents.dict.value ELSE ToStr(contents)
      [] contents.kind = "list" ->
            PyString(JoinLines([i \in 1 .. Len(contents.list) |->
                LET item == contents.list[i] IN
                IF item.kind = "str" THEN item.str
                ELSE IF "value" \in DOMAIN item.dict THEN item.dict.value.str ELSE ""]))
      [] OTHER -> ToStr(contents)

\* hover: the text of the result's contents, "" for no result.
HoverText(resp) ==
    IF resp.kind = "raise" THEN resp
    ELSE LET result == ResultOf(resp) IN
         IF Falsy(result) THEN PyString("")
         ELSE IF result.kind # "dict" THEN Raise("AttributeError")
         ELSE _extract_hover_text(Get(result, "contents", PyString("")))

\* _text_search_position
_text_search_position(file) ==
    IF file = "match" THEN PyTuple(FilePath, 0, 4) ELSE PyNone

\* The position of a symbol of workspace_symbol.
SymbolPosition(sym) ==
    LET loc == Get(sym, "location", PyDict(EmptyDict))
        rng == Get(Get(loc, "range", PyDict(EmptyDict)), "start", PyDict(EmptyDict))
    IN  PyTuple(_uri_to_path(Get(loc, "uri", PyString("")).str),
                Get(rng, "line", 0), Get(rng, "character", 0))

\* The symbol find_symbol_position picks: the first of the given name, else
\* the first one.
PickSymbol(symbols, name) ==
    LET exact == {i \in 1 .. Len(symbols) : Get(symbols[i], "name", PyString("")) = PyString(name)}
    IN  IF exact # {} THEN symbols[CHOOSE i \in exact : \A j \in exact : i <= j]
        ELSE symbols[1]

Called(op, lang, cond, value) ==
    lsp_calls' = Append(lsp_calls, [op |-> op, lang |-> lang, cond |-> cond, value |-> value])

\* LSPBridgeManager.get_server
GetServer(lang) ==
    /\ Len(lsp_calls) < MaxLspCalls
    /\ LET got == get_server(lang) IN
          /\ _servers' = got.servers
          /\ Called("get_server", lang, got.cond, got.value)
    /\ UNCHANGED lsp_env
    /\ UNCHANGED notLspVars

\* The server process exits.
ServerExits(lang) ==
    /\ lang \in DOMAIN _servers /\ _servers[lang].process = "running"
    /\ _servers' = [_servers EXCEPT ![lang].process = "exited"]
    /\ UNCHANGED <<lsp_env, lsp_calls>>
    /\ UNCHANGED notLspVars

\* _dispatch of textDocument/publishDiagnostics by the reader thread.
PublishDiagnostics(lang, diagnostics) ==
    /\ lang \in DOMAIN _servers
    /\ _servers[lang].process = "running" /\ _servers[lang].responds
    /\ _servers[lang].version > 0
    /\ FileUri \in DOMAIN _servers[lang].diagnostics
            => _servers[lang].diagnostics[FileUri] # diagnostics
    /\ _servers' = [_servers EXCEPT ![lang].diagnostics = Key(FileUri, diagnostics),
                                     ![lang].published_for = _servers[lang].version]
    /\ UNCHANGED <<lsp_env, lsp_calls>>
    /\ UNCHANGED notLspVars

\* LSPServer.get_diagnostics on the server a caller got from get_server:
\* pushed is what the server publishes for the version this call sent, early
\* whether that arrives before the first look at _diagnostics.  The loop
\* returns the entry of the uri as soon as there is one.
GetDiagnostics(lang, pushed, early) ==
    /\ Len(lsp_calls) < MaxLspCalls
    /\ lang \in DOMAIN _servers
    /\ LET server == _servers[lang]
           opened == _ensure_open(server)
           sent == _send_notification(server)
           arrives == server.process = "running" /\ server.responds /\ pushed # NoAnswer
           fresh == arrives /\ (early \/ FileUri \notin DOMAIN server.diagnostics)
           cache == IF fresh THEN Key(FileUri, pushed) ELSE server.diagnostics
           after == [opened EXCEPT !.diagnostics = cache,
                                   !.published_for = IF fresh THEN opened.version ELSE @]
       IN  /\ _servers' = [_servers EXCEPT ![lang] = after]
           /\ lsp_calls' = Append(lsp_calls,
                 [op |-> "get_diagnostics", lang |-> lang,
                  cond |-> IF server.process = "exited" THEN "server_died"
                           ELSE IF FileUri \in DOMAIN cache THEN "none" ELSE "timed_out",
                  value |-> IF sent.kind = "raise" THEN sent
                            ELSE IF FileUri \in DOMAIN cache THEN cache[FileUri]
                            ELSE PyList(<<>>),
                  version |-> opened.version,
                  published_for |-> IF FileUri \in DOMAIN cache THEN after.published_for
                                    ELSE 0])
    /\ UNCHANGED lsp_env
    /\ UNCHANGED notLspVars

\* LSPServer.find_references
FindReferences(lang, lsp_answer) ==
    /\ Len(lsp_calls) < MaxLspCalls
    /\ lang \in DOMAIN _servers
    /\ LET server == _servers[lang]
           sent == _send_notification(server)
           resp == _send_request(server, "textDocument/references", lsp_answer)
       IN  /\ _servers' = [_servers EXCEPT ![lang] = _ensure_open(server)]
           /\ Called("find_references", lang, CallCondition(server, lsp_answer),
                     IF sent.kind = "raise" THEN sent ELSE ResultOrEmpty(resp))
    /\ UNCHANGED lsp_env
    /\ UNCHANGED notLspVars

\* LSPServer.workspace_symbol
WorkspaceSymbol(lang, lsp_answer) ==
    /\ Len(lsp_calls) < MaxLspCalls
    /\ lang \in DOMAIN _servers
    /\ LET server == _servers[lang]
           resp == _send_request(server, "workspace/symbol", lsp_answer)
       IN  Called("workspace_symbol", lang, CallCondition(server, lsp_answer), ResultOrEmpty(resp))
    /\ UNCHANGED <<lsp_env, _servers>>
    /\ UNCHANGED notLspVars

\* LSPServer.hover
Hover(lang, lsp_answer) ==
    /\ Len(lsp_calls) < MaxLspCalls
    /\ lang \in DOMAIN _servers
    /\ LET server == _servers[lang]
           sent == _send_notification(server)
           resp == _send_request(server, "textDocument/hover", lsp_answer)
       IN  /\ _servers' = [_servers EXCEPT ![lang] = _ensure_open(server)]
           /\ Called("hover", lang, CallCondition(server, lsp_answer),
                     IF sent.kind = "raise" THEN sent ELSE HoverText(resp))
    /\ UNCHANGED lsp_env
    /\ UNCHANGED notLspVars

\* LSPBridgeManager.find_symbol_position for the name "f": get_server, then
\* workspace_symbol on the server it returns, then the text search.
FindSymbolPosition(lang, file, lsp_answer) ==
    /\ Len(lsp_calls) < MaxLspCalls
    /\ IF lang = NoLang
       THEN /\ Called("find_symbol_position", lang, "no_server_configured",
                      _text_search_position(file))
            /\ UNCHANGED _servers
       ELSE LET got == get_server(lang) IN
            /\ _servers' = got.servers
            /\ IF got.value.kind = "none"
               THEN Called("find_symbol_position", lang, got.cond, _text_search_position(file))
               ELSE LET server == got.servers[lang]
                        symbols == ResultOrEmpty(_send_request(server, "workspace/symbol", lsp_answer))
                        cond == IF got.cond # "none" THEN got.cond
                                ELSE CallCondition(server, lsp_answer)
                    IN  Called("find_symbol_position", lang, cond,
                               IF symbols.kind = "raise" THEN symbols
                               ELSE IF symbols.list # <<>>
                                    THEN SymbolPosition(PickSymbol(symbols.list, "f"))
                                    ELSE _text_search_position(file))
    /\ UNCHANGED lsp_env
    /\ UNCHANGED notLspVars

InitLsp ==
    /\ OrchAtRest /\ PoolAtRest /\ ClientAtRest /\ DocsAtRest /\ HandlerAtRest /\ RunAtRest /\ QueueWorkerAtRest /\ PlanAtRest /\ DirectAtRest /\ ToolsAtRest /\ McpServerAtRest
    /\ CollectAtRest /\ CodecAtRest /\ McpAtRest /\ SanAtRest /\ WrapAtRest
    /\ ValidAtRest /\ ExtractAtRest /\ TaskAtRest
    /\ lsp_env \in [LangIds -> CommandKinds]
    /\ _servers = EmptyDict
    /\ lsp_calls = <<>>

NextLsp ==
    \/ \E lang \in LangIds : GetServer(lang)
    \/ \E lang \in LangIds : ServerExits(lang)
    \/ \E lang \in LangIds, diagnostics \in DiagnosticLists : PublishDiagnostics(lang, diagnostics)
    \/ \E lang \in LangIds, pushed \in DiagnosticLists \cup {NoAnswer}, early \in BOOLEAN :
          GetDiagnostics(lang, pushed, early)
    \/ \E lang \in LangIds, lsp_answer \in ReferenceAnswers : FindReferences(lang, lsp_answer)
    \/ \E lang \in LangIds, lsp_answer \in SymbolAnswers : WorkspaceSymbol(lang, lsp_answer)
    \/ \E lang \in LangIds, lsp_answer \in HoverAnswers : Hover(lang, lsp_answer)
    \/ \E lang \in LangIds \cup {NoLang}, file \in FileKinds, lsp_answer \in SymbolAnswers :
          FindSymbolPosition(lang, file, lsp_answer)

SpecLsp == InitLsp /\ [][NextLsp]_vars

(***************************************************************************)
(* One call of Orchestrator.run: _plan_tasks, the scheduler of the         *)
(* transport, _summarize (orchestrator.py).                                *)
(***************************************************************************)
\* next(iter(self.worker_configs))
FirstRole == "coder"

\* What a conversation call of the orchestrator's client does: send_request
\* writes to the subprocess and waits for the response (client.py 224-241).
ConversationCalls ==
    IF upstream = "exited" THEN {Raise("BrokenPipeError"), Raise("TimeoutError")}
    ELSE {Raise("TimeoutError"), PyDict([reply |-> PyString("reply")])}

\* The plans a reply may hold: the plans of the scheduler and one for a role
\* that no worker has.
ReplyPlans ==
    UNION {PlansOf(n) : n \in 0 .. MaxTasks}
        \cup {[i \in Indices(1) |-> [worker_role |-> "tester", depends_on |-> {}]]}

\* What json.loads gives for the planning reply: a list of task objects, an
\* object, a number, or JSONDecodeError for text.
PlanReplies ==
    {[kind |-> "list", plan |-> p] : p \in ReplyPlans}
        \cup {[kind |-> "dict"], [kind |-> "int"], Raise("JSONDecodeError")}

\* The validated list of _plan_tasks for a list of task objects.
Validated(plan) ==
    [i \in DOMAIN plan |->
        [worker_role |-> IF plan[i].worker_role \in Roles THEN plan[i].worker_role
                         ELSE FirstRole,
         depends_on |-> plan[i].depends_on]]

\* _plan_tasks: the validated plan, or what it raises.
_plan_tasks(called, parsed) ==
    IF called.kind = "raise" THEN called
    ELSE CASE parsed.kind = "raise" ->
                [kind |-> "list",
                 plan |-> [i \in Indices(1) |-> [worker_role |-> FirstRole, depends_on |-> {}]]]
           [] parsed.kind = "list" -> [kind |-> "list", plan |-> Validated(parsed.plan)]
           [] parsed.kind = "dict" -> Raise("AttributeError")
           [] OTHER -> Raise("TypeError")

\* _summarize: the reply, or the text for what the call raised.
_summarize(called) ==
    IF called.kind = "raise" THEN "Summary generation failed: " \o called.raise
    ELSE Get(called, "reply", PyString("")).str

\* run, step 1: _plan_tasks; the scheduler starts with the plan.
RunPlan(called, parsed) ==
    /\ run_pc = "planning"
    /\ LET planned == _plan_tasks(called, parsed) IN
       IF planned.kind = "raise"
       THEN /\ run_pc' = "raised"
            /\ run_result' = planned
            /\ UNCHANGED <<tasks, pending, pc>>
       ELSE /\ run_pc' = "executing"
            /\ tasks' = planned.plan
            /\ pending' = DOMAIN planned.plan
            /\ pc' = "loop"
            /\ UNCHANGED run_result
    /\ UNCHANGED upstream
    /\ UNCHANGED <<transport, context, workers, completed, running, threads, inbox,
                   resultQueue, wstate, wmsg, wprog, results>>
    /\ UNCHANGED <<poolVars, clientVars, docVars, handlerVars, collectVars, codecVars,
                   mcpVars, sanVars, wrapVars, validVars, extractVars, taskVars, lspVars, queueWorkerVars, planVars, directVars, toolVars, mcpServerVars>>

\* run, step 3: _summarize, and the return.
RunSummarize(called) ==
    /\ run_pc = "executing" /\ pc = "done"
    /\ run_pc' = "returned"
    /\ run_result' = [kind |-> "dict", tasks |-> tasks, results |-> results,
                      summary |-> _summarize(called)]
    /\ UNCHANGED upstream
    /\ UNCHANGED notRunVars

\* The subprocess of the orchestrator's client exits.
UpstreamExits ==
    /\ upstream = "running" /\ run_pc \in {"planning", "executing"}
    /\ upstream' = "exited"
    /\ UNCHANGED <<run_pc, run_result>>
    /\ UNCHANGED notRunVars

InitRun ==
    /\ PoolAtRest /\ ClientAtRest /\ DocsAtRest /\ HandlerAtRest /\ QueueWorkerAtRest /\ PlanAtRest /\ DirectAtRest /\ ToolsAtRest /\ McpServerAtRest
    /\ CollectAtRest /\ CodecAtRest /\ McpAtRest /\ SanAtRest /\ WrapAtRest
    /\ ValidAtRest /\ ExtractAtRest /\ TaskAtRest /\ LspAtRest
    /\ transport \in Transports
    /\ tasks = EmptyDict
    /\ context \in CallerContexts
    /\ workers \in StartedWorkers(transport)
    /\ pc = "plan"
    /\ completed = EmptyDict
    /\ pending = {}
    /\ running = EmptyDict
    /\ threads = {}
    /\ inbox = [r \in Roles |-> <<>>]
    /\ resultQueue = <<>>
    /\ wstate = [r \in Roles |->
                   IF transport = "queue" /\ r \in workers THEN "init" ELSE "none"]
    /\ wmsg = [r \in Roles |-> NoMsg]
    /\ wprog = [r \in Roles |-> 0]
    /\ results = <<>>
    /\ upstream = "running"
    /\ run_pc = "planning"
    /\ run_result = [kind |-> "none"]

NextRun ==
    \/ \E called \in ConversationCalls, parsed \in PlanReplies : RunPlan(called, parsed)
    \/ NextOrch
    \/ \E called \in ConversationCalls : RunSummarize(called)
    \/ UpstreamExits

SpecRun == InitRun /\ [][NextRun]_vars

(***************************************************************************)
(* One QueueWorker thread: _run_loop, _handle_task, _stop_client and the   *)
(* orchestrator's puts into its inbox (orchestrator.py).                   *)
(***************************************************************************)
MaxAssigns == 2

MSG_SHUTDOWN == "shutdown"

\* The messages of one worker's queues: _msg_task_assign, _msg_shutdown,
\* _msg_task_result and _msg_task_progress.
QwMsg(type, task_id, status) == [type |-> type, task_id |-> task_id, status |-> status]

\* _run_loop: _init_client returns, or raises and the __init__ result is
\* posted and the thread returns.
QwInit(ok) ==
    /\ qw_pc = "init"
    /\ IF ok
       THEN /\ qw_session' = "held" /\ qw_pc' = "check"
            /\ UNCHANGED qw_outbox
       ELSE /\ qw_outbox' = Append(qw_outbox, QwMsg(MSG_TASK_RESULT, "__init__", "error"))
            /\ qw_pc' = "exited"
            /\ UNCHANGED qw_session
    /\ UNCHANGED <<qw_inbox, qw_running, qw_msg, qw_progress, qw_taken, qw_assigned,
                   qw_stopped>>
    /\ UNCHANGED notQueueWorkerVars

\* _stop_client: release_client when there is a client.
_stop_client == IF qw_session = "held" THEN "released" ELSE qw_session

\* `while self._running`: into inbox.get, or out of the loop to _stop_client.
QwCheck ==
    /\ qw_pc = "check"
    /\ IF qw_running
       THEN qw_pc' = "get" /\ UNCHANGED qw_session
       ELSE qw_pc' = "exited" /\ qw_session' = _stop_client
    /\ UNCHANGED <<qw_inbox, qw_outbox, qw_running, qw_msg, qw_progress, qw_taken,
                   qw_assigned, qw_stopped>>
    /\ UNCHANGED notQueueWorkerVars

\* inbox.get(timeout=1.0) raises queue.Empty: continue.
QwGetEmpty ==
    /\ qw_pc = "get" /\ qw_inbox = <<>>
    /\ qw_pc' = "check"
    /\ UNCHANGED <<qw_inbox, qw_outbox, qw_running, qw_msg, qw_progress, qw_taken,
                   qw_session, qw_assigned, qw_stopped>>
    /\ UNCHANGED notQueueWorkerVars

\* inbox.get returns a message: shutdown breaks out of the loop to
\* _stop_client, task_assign enters _handle_task, any other type is ignored.
QwGet ==
    /\ qw_pc = "get" /\ qw_inbox # <<>>
    /\ LET msg == Head(qw_inbox) IN
          /\ qw_inbox' = Tail(qw_inbox)
          /\ qw_taken' = Append(qw_taken, msg)
          /\ CASE msg.type = MSG_SHUTDOWN ->
                    /\ qw_pc' = "exited" /\ qw_session' = _stop_client
                    /\ UNCHANGED <<qw_msg, qw_progress>>
               [] msg.type = MSG_TASK_ASSIGN ->
                    /\ qw_pc' = "task" /\ qw_msg' = msg /\ qw_progress' = 0
                    /\ UNCHANGED qw_session
               [] OTHER ->
                    /\ qw_pc' = "check"
                    /\ UNCHANGED <<qw_msg, qw_progress, qw_session>>
    /\ UNCHANGED <<qw_outbox, qw_running, qw_assigned, qw_stopped>>
    /\ UNCHANGED notQueueWorkerVars

\* _handle_task, on_progress: a delta of the reply is forwarded.
QwProgress ==
    /\ qw_pc = "task" /\ qw_progress < MaxProgress
    /\ qw_outbox' = Append(qw_outbox, QwMsg(MSG_TASK_PROGRESS, qw_msg.task_id, ""))
    /\ qw_progress' = qw_progress + 1
    /\ UNCHANGED <<qw_pc, qw_inbox, qw_running, qw_msg, qw_taken, qw_session,
                   qw_assigned, qw_stopped>>
    /\ UNCHANGED notQueueWorkerVars

\* _handle_task: the conversation call returned; the success result is put.
QwSucceed ==
    /\ qw_pc = "task"
    /\ qw_outbox' = Append(qw_outbox, QwMsg(MSG_TASK_RESULT, qw_msg.task_id, "success"))
    /\ qw_pc' = "check"
    /\ qw_msg' = [type |-> "none"]
    /\ UNCHANGED <<qw_inbox, qw_running, qw_progress, qw_taken, qw_session,
                   qw_assigned, qw_stopped>>
    /\ UNCHANGED notQueueWorkerVars

\* A _handle_task that puts nothing when the call raises.
QwFailSilent ==
    /\ qw_pc = "task"
    /\ qw_pc' = "check"
    /\ qw_msg' = [type |-> "none"]
    /\ UNCHANGED <<qw_inbox, qw_outbox, qw_running, qw_progress, qw_taken, qw_session,
                   qw_assigned, qw_stopped>>
    /\ UNCHANGED notQueueWorkerVars

\* _handle_task: the conversation call raised; the error result is put.
QwFail ==
    /\ qw_pc = "task"
    /\ qw_outbox' = Append(qw_outbox, QwMsg(MSG_TASK_RESULT, qw_msg.task_id, "error"))
    /\ qw_pc' = "check"
    /\ qw_msg' = [type |-> "none"]
    /\ UNCHANGED <<qw_inbox, qw_running, qw_progress, qw_taken, qw_session,
                   qw_assigned, qw_stopped>>
    /\ UNCHANGED notQueueWorkerVars

\* The scheduler's inbox.put(_msg_task_assign(...)), one fresh task id each.
QwAssign ==
    /\ qw_assigned < MaxAssigns
    /\ qw_assigned' = qw_assigned + 1
    /\ qw_inbox' = Append(qw_inbox, QwMsg(MSG_TASK_ASSIGN, TaskId(qw_assigned), ""))
    /\ UNCHANGED <<qw_pc, qw_outbox, qw_running, qw_msg, qw_progress, qw_taken,
                   qw_session, qw_stopped>>
    /\ UNCHANGED notQueueWorkerVars

\* QueueWorker.stop: clear _running and put the shutdown message.
QwStop ==
    /\ ~qw_stopped
    /\ qw_stopped' = TRUE
    /\ qw_running' = FALSE
    /\ qw_inbox' = Append(qw_inbox, QwMsg(MSG_SHUTDOWN, "", ""))
    /\ UNCHANGED <<qw_pc, qw_outbox, qw_msg, qw_progress, qw_taken, qw_session,
                   qw_assigned>>
    /\ UNCHANGED notQueueWorkerVars

\* A worker after start().
InitQueueWorker ==
    /\ OrchAtRest /\ PoolAtRest /\ ClientAtRest /\ DocsAtRest /\ HandlerAtRest /\ PlanAtRest /\ DirectAtRest /\ ToolsAtRest /\ McpServerAtRest
    /\ CollectAtRest /\ CodecAtRest /\ McpAtRest /\ SanAtRest /\ WrapAtRest
    /\ ValidAtRest /\ ExtractAtRest /\ TaskAtRest /\ LspAtRest /\ RunAtRest
    /\ qw_pc = "init" /\ qw_inbox = <<>> /\ qw_outbox = <<>> /\ qw_running = TRUE
    /\ qw_msg = [type |-> "none"] /\ qw_progress = 0 /\ qw_taken = <<>>
    /\ qw_session = "none" /\ qw_assigned = 0 /\ qw_stopped = FALSE

NextQueueWorker ==
    \/ \E ok \in BOOLEAN : QwInit(ok)
    \/ QwCheck
    \/ QwGetEmpty
    \/ QwGet
    \/ QwProgress
    \/ QwSucceed
    \/ QwFail
    \/ QwAssign
    \/ QwStop

SpecQueueWorker == InitQueueWorker /\ [][NextQueueWorker]_vars

(***************************************************************************)
(* _plan_tasks after the conversation call: json.loads of the extracted    *)
(* text and the validation loop (orchestrator.py).                         *)
(***************************************************************************)
MaxPlanItems == 2

\* The goal argument of _plan_tasks.
Goal == "goal"

\* The values a reply may give for the keys of one task object; NoKey is a
\* key the object does not have.
NoKey == [kind |-> "missing"]
RoleValues ==
    {NoKey, PyString("coder"), PyString("reviewer"), PyString("tester"), PyNone,
     PyList(<<>>)}
TaskTexts == {NoKey, PyString("text"), PyInt(7)}
DependsValues == {NoKey, PyList(<<>>), PyList(<<PyInt(0)>>), PyInt(0)}

\* A JSON object with the given values for worker_role, task and depends_on.
TaskObject(role, text, deps) ==
    LET given == [worker_role |-> role, task |-> text, depends_on |-> deps]
        keys == {k \in DOMAIN given : given[k] # NoKey}
    IN  PyDict([k \in keys |-> given[k]])

TaskObjects ==
    {TaskObject(role, text, deps) :
        role \in RoleValues, text \in TaskTexts, deps \in DependsValues}

\* The elements of a JSON array in a reply: task objects, and values that are
\* no objects.
PlanItems == TaskObjects \cup {PyInt(1), PyNone}

\* What json.loads(json_str) gives: an array, an object, a string, a number,
\* true, null, or JSONDecodeError.
ParsedReplies ==
    {PyList(items) : items \in UNION {[1 .. n -> PlanItems] : n \in 0 .. MaxPlanItems}}
        \cup {TaskObject(PyString("coder"), PyString("text"), PyList(<<>>)),
              PyDict(<<>>), PyString("text"), PyString(""), PyInt(5), PyBool(TRUE),
              PyNone, Raise("JSONDecodeError")}

\* The single task _plan_tasks falls back to.
FallbackTask ==
    PyDict([worker_role |-> PyString(FirstRole), task |-> PyString(Goal),
            depends_on |-> PyList(<<>>)])

\* Whether `role not in self.worker_configs` can hash the value.
Unhashable(value) == value.kind \in {"list", "dict"}

\* One pass of the body of `for t in tasks` for an element of a list.
ValidateTask(t) ==
    IF t.kind # "dict" THEN Raise("AttributeError")
    ELSE LET role == Get(t, "worker_role", PyString("")) IN
         IF Unhashable(role) THEN Raise("TypeError")
         ELSE PyDict([worker_role |->
                          IF role.kind = "str" /\ role.str \in Roles THEN role
                          ELSE PyString(FirstRole),
                      task |-> Get(t, "task", PyString("")),
                      depends_on |-> Get(t, "depends_on", PyList(<<>>))])

\* The loop over a list: the validated list, or what the first failing
\* element raises.
RECURSIVE ValidateList(_, _)
ValidateList(items, validated) ==
    IF items = <<>> THEN PyList(validated)
    ELSE LET one == ValidateTask(Head(items)) IN
         IF one.kind = "raise" THEN one
         ELSE ValidateList(Tail(items), Append(validated, one))

\* `for t in tasks` over what json.loads gave: a list gives its elements, a
\* dict its keys and a string its characters (strings, which have no get),
\* anything else is not iterable.
ValidatePlan(parsed) ==
    CASE parsed.kind = "raise" -> ValidateList(<<FallbackTask>>, <<>>)
      [] parsed.kind = "list" -> ValidateList(parsed.list, <<>>)
      [] parsed.kind = "dict" ->
            IF DOMAIN parsed.dict = {} THEN PyList(<<>>) ELSE Raise("AttributeError")
      [] parsed.kind = "str" ->
            IF parsed.str = "" THEN PyList(<<>>) ELSE Raise("AttributeError")
      [] OTHER -> Raise("TypeError")

\* _plan_tasks from json.loads to its return.
PlanValidate ==
    /\ plan_pc = "parsed"
    /\ LET out == ValidatePlan(plan_parsed) IN
          /\ plan_validated' = out
          /\ plan_pc' = IF out.kind = "raise" THEN "raised" ELSE "returned"
    /\ UNCHANGED plan_parsed
    /\ UNCHANGED notPlanVars

\* _plan_tasks with the reply parsed.
InitPlan ==
    /\ OrchAtRest /\ PoolAtRest /\ ClientAtRest /\ DocsAtRest /\ HandlerAtRest /\ DirectAtRest /\ ToolsAtRest /\ McpServerAtRest
    /\ CollectAtRest /\ CodecAtRest /\ McpAtRest /\ SanAtRest /\ WrapAtRest
    /\ ValidAtRest /\ ExtractAtRest /\ TaskAtRest /\ LspAtRest /\ RunAtRest
    /\ QueueWorkerAtRest
    /\ plan_parsed \in ParsedReplies
    /\ plan_pc = "parsed"
    /\ plan_validated = [kind |-> "none"]

NextPlan == PlanValidate

SpecPlan == InitPlan /\ [][NextPlan]_vars

(***************************************************************************)
(* _init_client(shared=False) and release_client on its client, next to    *)
(* callers of the pool for the same workspace (client.py).                 *)
(***************************************************************************)
\* _init_client(workspace, shared=False): _init_client_internal makes a fresh
\* client with workspace_root = abspath(workspace); the pool is not touched.
InitUnshared(t) ==
    /\ cpc[t] = "idle" /\ unpooled[t] = NoClient /\ acquires < MaxAcquires
    /\ LET c == Cardinality(started) + 1
       IN  /\ started' = started \cup {c}
           /\ stops' = DictSet(stops, c, 0)
           /\ preps' = DictSet(preps, c, 0)
           /\ unpooled' = [unpooled EXCEPT ![t] = c]
    /\ acquires' = acquires + 1
    /\ UNCHANGED <<poolClients, poolRefcounts, poolAgentMode, cpc, cmode, clocal,
                   held, returned, calls, extra>>
    /\ UNCHANGED directReleased
    /\ UNCHANGED notPoolDirectVars

\* release_client(client) on that client: SessionPool.release looks up
\* client.workspace_root.
ReleaseUnshared(t) ==
    /\ cpc[t] = "idle" /\ unpooled[t] # NoClient
    /\ PoolRelease(unpooled[t])
    /\ directReleased' = directReleased \cup {unpooled[t]}
    /\ unpooled' = [unpooled EXCEPT ![t] = NoClient]
    /\ UNCHANGED <<started, preps, poolAgentMode, cpc, cmode, clocal, held,
                   returned, calls, extra, acquires>>
    /\ UNCHANGED notPoolDirectVars

InitPoolDirect ==
    /\ OrchAtRest /\ PoolAtRest /\ ClientAtRest /\ DocsAtRest /\ HandlerAtRest /\ ToolsAtRest /\ McpServerAtRest
    /\ CollectAtRest /\ CodecAtRest /\ McpAtRest /\ SanAtRest /\ WrapAtRest
    /\ ValidAtRest /\ ExtractAtRest /\ TaskAtRest /\ LspAtRest /\ RunAtRest
    /\ QueueWorkerAtRest /\ PlanAtRest
    /\ unpooled = [t \in Callers |-> NoClient]
    /\ directReleased = {}

\* Callers of the pool that release what they acquired, and callers of
\* _init_client(shared=False).
NextPoolDirect ==
    \/ \E t \in Callers, agent \in BOOLEAN : AcquireCached(t, agent)
    \/ \E t \in Callers, agent \in BOOLEAN : AcquireMiss(t, agent)
    \/ \E t \in Callers : AcquireInit(t)
    \/ \E t \in Callers : AcquireInstall(t)
    \/ \E t \in Callers : Release(t)
    \/ \E t \in Callers : InitUnshared(t)
    \/ \E t \in Callers : ReleaseUnshared(t)

SpecPoolDirect == InitPoolDirect /\ [][NextPoolDirect]_vars

(***************************************************************************)
(* SessionPool.acquire when the startup of the upstream, or the agent-mode *)
(* preparation of the cached client, raises (client.py).                   *)
(***************************************************************************)
\* The end of an acquire call of caller t that raises.
AcquireRaises(t) ==
    /\ calls' = [calls EXCEPT ![t] = Append(@, "acquire raised")]
    /\ UNCHANGED <<held, returned>>

\* acquire, outside the lock: _init_client_internal raises, before or after
\* client.start() has spawned the subprocess; nothing catches it.
AcquireInitRaises(t, spawned) ==
    /\ cpc[t] = "init"
    /\ LET c == Cardinality(started) + 1
       IN  IF spawned
           THEN /\ started' = started \cup {c}
                /\ stops' = DictSet(stops, c, 0)
                /\ preps' = DictSet(preps, c, 0)
                /\ poolAgentMode' = DictSet(poolAgentMode, c, FALSE)
           ELSE UNCHANGED <<started, stops, preps, poolAgentMode>>
    /\ cpc' = [cpc EXCEPT ![t] = "idle"]
    /\ cmode' = [cmode EXCEPT ![t] = FALSE]
    /\ AcquireRaises(t)
    /\ UNCHANGED <<poolClients, poolRefcounts, clocal, extra, acquires>>
    /\ UNCHANGED notPoolVars

\* acquire, first locked block, key in _clients and agent_mode asked of a
\* client that has not got it: the reference is counted, then
\* register_client_tools or _open_workspace_files raises out of acquire.
AcquireCachedRaises(t) ==
    /\ cpc[t] = "idle" /\ acquires < MaxAcquires
    /\ Workspace \in DOMAIN poolClients
    /\ ~poolAgentMode[poolClients[Workspace]]
    /\ poolRefcounts' = [poolRefcounts EXCEPT ![Workspace] = @ + 1]
    /\ AcquireRaises(t)
    /\ acquires' = acquires + 1
    /\ UNCHANGED <<poolClients, started, stops, preps, poolAgentMode, cpc, cmode,
                   clocal, extra>>
    /\ UNCHANGED notPoolVars

\* Callers of the pool that release what they acquired, with acquire calls
\* that raise.
NextPoolFaults ==
    \/ \E t \in Callers, agent \in BOOLEAN : AcquireCached(t, agent)
    \/ \E t \in Callers, agent \in BOOLEAN : AcquireMiss(t, agent)
    \/ \E t \in Callers : AcquireInit(t)
    \/ \E t \in Callers, spawned \in BOOLEAN : AcquireInitRaises(t, spawned)
    \/ \E t \in Callers : AcquireCachedRaises(t)
    \/ \E t \in Callers : AcquireInstall(t)
    \/ \E t \in Callers : Release(t)

SpecPoolFaults == InitPool /\ [][NextPoolFaults]_vars

(***************************************************************************)
(* QueueWorker._init_client of the workers of one process, each with its   *)
(* own workspace and agent_mode, and the tool registry of the process      *)
(* (orchestrator.py, tools/__init__.py, client.py).                        *)
(***************************************************************************)
\* The worker threads of the process.
ToolWorkers == 1 .. 2

\* The tools the package discovers at import.
RegistryNames == {"read_file", "grep_search", "create_file"}

\* config.tools_enabled: "__ALL__" or a list of names.
ALL == [all |-> TRUE, names |-> {}]
Only(names) == [all |-> FALSE, names |-> names]
ToolConfigs == {ALL} \cup {Only(names) : names \in SUBSET RegistryNames}

\* The tools a worker's configuration lets it use.
Enabled(w) == IF tools_enabled[w].all THEN RegistryNames ELSE tools_enabled[w].names

\* _init_client: `if self.config.tools_enabled != "__ALL__"`, and
\* list(TOOL_SCHEMAS.keys()) for the first loop.
RestrictBegin(w) ==
    /\ tw_pc[w] = "start"
    /\ IF tools_enabled[w].all
       THEN /\ tw_pc' = [tw_pc EXCEPT ![w] = "init"]
            /\ UNCHANGED tw_todo
       ELSE /\ tw_pc' = [tw_pc EXCEPT ![w] = "schemas"]
            /\ tw_todo' = [tw_todo EXCEPT ![w] = TOOL_SCHEMAS]
    /\ UNCHANGED <<TOOL_SCHEMAS, TOOL_EXECUTORS, tools_enabled, tw_registered, tw_found>>
    /\ UNCHANGED notToolVars

\* One pass of `for name in list(TOOL_SCHEMAS.keys())`: del TOOL_SCHEMAS[name]
\* for a name that is not enabled, KeyError if another thread deleted it
\* since the list was made.
RestrictSchema(w) ==
    /\ tw_pc[w] = "schemas" /\ tw_todo[w] # {}
    /\ \E name \in tw_todo[w] :
          /\ tw_todo' = [tw_todo EXCEPT ![w] = @ \ {name}]
          /\ IF name \in Enabled(w)
             THEN UNCHANGED <<TOOL_SCHEMAS, tw_pc>>
             ELSE IF name \in TOOL_SCHEMAS
                  THEN /\ TOOL_SCHEMAS' = TOOL_SCHEMAS \ {name}
                       /\ UNCHANGED tw_pc
                  ELSE /\ tw_pc' = [tw_pc EXCEPT ![w] = "failed"]
                       /\ UNCHANGED TOOL_SCHEMAS
    /\ UNCHANGED <<TOOL_EXECUTORS, tools_enabled, tw_registered, tw_found>>
    /\ UNCHANGED notToolVars

\* The first loop is over: list(TOOL_EXECUTORS.keys()) for the second.
RestrictExecutorsBegin(w) ==
    /\ tw_pc[w] = "schemas" /\ tw_todo[w] = {}
    /\ tw_pc' = [tw_pc EXCEPT ![w] = "executors"]
    /\ tw_todo' = [tw_todo EXCEPT ![w] = TOOL_EXECUTORS]
    /\ UNCHANGED <<TOOL_SCHEMAS, TOOL_EXECUTORS, tools_enabled, tw_registered, tw_found>>
    /\ UNCHANGED notToolVars

\* One pass of `for name in list(TOOL_EXECUTORS.keys())`.
RestrictExecutor(w) ==
    /\ tw_pc[w] = "executors" /\ tw_todo[w] # {}
    /\ \E name \in tw_todo[w] :
          /\ tw_todo' = [tw_todo EXCEPT ![w] = @ \ {name}]
          /\ IF name \in Enabled(w)
             THEN UNCHANGED <<TOOL_EXECUTORS, tw_pc>>
             ELSE IF name \in TOOL_EXECUTORS
                  THEN /\ TOOL_EXECUTORS' = TOOL_EXECUTORS \ {name}
                       /\ UNCHANGED tw_pc
                  ELSE /\ tw_pc' = [tw_pc EXCEPT ![w] = "failed"]
                       /\ UNCHANGED TOOL_EXECUTORS
    /\ UNCHANGED <<TOOL_SCHEMAS, tools_enabled, tw_registered, tw_found>>
    /\ UNCHANGED notToolVars

\* The second loop is over: on to the module's _init_client.
RestrictEnd(w) ==
    /\ tw_pc[w] = "executors" /\ tw_todo[w] = {}
    /\ tw_pc' = [tw_pc EXCEPT ![w] = "init"]
    /\ UNCHANGED <<TOOL_SCHEMAS, TOOL_EXECUTORS, tools_enabled, tw_todo, tw_registered,
                   tw_found>>
    /\ UNCHANGED notToolVars

\* _init_client(..., agent_mode=True): register_client_tools sends
\* list(TOOL_SCHEMAS.values()).
RegisterTools(w) ==
    /\ tw_pc[w] = "init"
    /\ tw_registered' = [tw_registered EXCEPT ![w] = TOOL_SCHEMAS]
    /\ tw_pc' = [tw_pc EXCEPT ![w] = "ready"]
    /\ UNCHANGED <<TOOL_SCHEMAS, TOOL_EXECUTORS, tools_enabled, tw_todo, tw_found>>
    /\ UNCHANGED notToolVars

\* _execute_client_tool for a tool the worker's configuration enables:
\* TOOL_EXECUTORS.get(tool_name), "Unknown tool" when there is none.
ExecuteClientTool(w, name) ==
    /\ tw_pc[w] = "ready" /\ name \in Enabled(w)
    /\ tw_found' = [tw_found EXCEPT ![w] =
                       IF name \in TOOL_EXECUTORS THEN @ \cup {name} ELSE @ \ {name}]
    /\ UNCHANGED <<TOOL_SCHEMAS, TOOL_EXECUTORS, tools_enabled, tw_pc, tw_todo,
                   tw_registered>>
    /\ UNCHANGED notToolVars

\* The process after import, its workers started.
InitTools ==
    /\ OrchAtRest /\ PoolAtRest /\ ClientAtRest /\ DocsAtRest /\ HandlerAtRest /\ McpServerAtRest
    /\ CollectAtRest /\ CodecAtRest /\ McpAtRest /\ SanAtRest /\ WrapAtRest
    /\ ValidAtRest /\ ExtractAtRest /\ TaskAtRest /\ LspAtRest /\ RunAtRest
    /\ QueueWorkerAtRest /\ PlanAtRest /\ DirectAtRest
    /\ TOOL_SCHEMAS = RegistryNames /\ TOOL_EXECUTORS = RegistryNames
    /\ tools_enabled \in [ToolWorkers -> ToolConfigs]
    /\ tw_pc = [w \in ToolWorkers |-> "start"]
    /\ tw_todo = [w \in ToolWorkers |-> {}]
    /\ tw_registered = [w \in ToolWorkers |-> {}]
    /\ tw_found = [w \in ToolWorkers |-> {}]

NextTools ==
    \/ \E w \in ToolWorkers : RestrictBegin(w)
    \/ \E w \in ToolWorkers : RestrictSchema(w)
    \/ \E w \in ToolWorkers : RestrictExecutorsBegin(w)
    \/ \E w \in ToolWorkers : RestrictExecutor(w)
    \/ \E w \in ToolWorkers : RestrictEnd(w)
    \/ \E w \in ToolWorkers : RegisterTools(w)
    \/ \E w \in ToolWorkers, name \in RegistryNames : ExecuteClientTool(w, name)

SpecTools == InitTools /\ [][NextTools]_vars

(***************************************************************************)
(* One round of _execute_mcp with two ready tasks of one role: their       *)
(* _run_task threads call execute_task on the same MCPWorker, which sends  *)
(* tools/call through one MCPServer (orchestrator.py, mcp.py).             *)
(***************************************************************************)
\* The indices of the two tasks of the round.
RoundTasks == 0 .. 1

\* MCPServer._request_id when the round starts: 2 after the initialize and
\* tools/list requests of MCPWorker.start, more after earlier rounds.
FirstRequestIds == 2 .. 4

\* completed[i] as _run_task stores it: reply_to is the task whose request
\* the agent was answering with the reply, -1 for none.
RunTaskCompleted(status, reply_to) == [status |-> status, reply_to |-> reply_to]

\* MCPServer._next_id, self._request_id += 1: load the attribute.
McpNextIdLoad(i) ==
    /\ ms_pc[i] = "start"
    /\ ms_reg' = [ms_reg EXCEPT ![i] = ms_request_id]
    /\ ms_pc' = [ms_pc EXCEPT ![i] = "loaded"]
    /\ UNCHANGED <<ms_request_id, ms_responses, ms_wire, ms_answered, ms_id, ms_completed>>
    /\ UNCHANGED notMcpServerVars

\* _next_id, self._request_id += 1: store the loaded value plus one.
McpNextIdStore(i) ==
    /\ ms_pc[i] = "loaded"
    /\ ms_request_id' = ms_reg[i] + 1
    /\ ms_pc' = [ms_pc EXCEPT ![i] = "stored"]
    /\ UNCHANGED <<ms_responses, ms_wire, ms_answered, ms_reg, ms_id, ms_completed>>
    /\ UNCHANGED notMcpServerVars

\* _next_id, return self._request_id, and send_request's _send_raw of the
\* request with that id.
McpSendRaw(i) ==
    /\ ms_pc[i] = "stored"
    /\ ms_id' = [ms_id EXCEPT ![i] = ms_request_id]
    /\ ms_wire' = Append(ms_wire, [id |-> ms_request_id, task |-> i])
    /\ ms_pc' = [ms_pc EXCEPT ![i] = "waiting"]
    /\ UNCHANGED <<ms_request_id, ms_responses, ms_answered, ms_reg, ms_completed>>
    /\ UNCHANGED notMcpServerVars

\* The agent answers the next request on the wire with that request's id;
\* _reader_loop stores the response under the id.
McpReaderStore ==
    /\ ms_answered < Len(ms_wire)
    /\ LET request == ms_wire[ms_answered + 1] IN
          ms_responses' = DictSet(ms_responses, request.id, request.task)
    /\ ms_answered' = ms_answered + 1
    /\ UNCHANGED <<ms_request_id, ms_wire, ms_pc, ms_reg, ms_id, ms_completed>>
    /\ UNCHANGED notMcpServerVars

\* send_request: the poll finds msg_id in _responses and pops it; execute_task
\* returns the reply and _run_task stores it in completed[i].
McpPoll(i) ==
    /\ ms_pc[i] = "waiting"
    /\ ms_id[i] \in DOMAIN ms_responses
    /\ ms_completed' = [ms_completed EXCEPT ![i] =
                           RunTaskCompleted("success", ms_responses[ms_id[i]])]
    /\ ms_responses' = DictDel(ms_responses, ms_id[i])
    /\ ms_pc' = [ms_pc EXCEPT ![i] = "done"]
    /\ UNCHANGED <<ms_request_id, ms_wire, ms_answered, ms_reg, ms_id>>
    /\ UNCHANGED notMcpServerVars

\* send_request: 120 seconds pass with no response under msg_id; TimeoutError,
\* which _run_task stores as an error.
McpTimeout(i) ==
    /\ ms_pc[i] = "waiting"
    /\ ms_id[i] \notin DOMAIN ms_responses
    /\ ms_completed' = [ms_completed EXCEPT ![i] = RunTaskCompleted("error", -1)]
    /\ ms_pc' = [ms_pc EXCEPT ![i] = "done"]
    /\ UNCHANGED <<ms_request_id, ms_responses, ms_wire, ms_answered, ms_reg, ms_id>>
    /\ UNCHANGED notMcpServerVars

\* The round has started a thread for each of the two tasks; the server has
\* sent some requests before.
InitMcpServer ==
    /\ OrchAtRest /\ PoolAtRest /\ ClientAtRest /\ DocsAtRest /\ HandlerAtRest
    /\ CollectAtRest /\ CodecAtRest /\ McpAtRest /\ SanAtRest /\ WrapAtRest
    /\ ValidAtRest /\ ExtractAtRest /\ TaskAtRest /\ LspAtRest /\ RunAtRest
    /\ QueueWorkerAtRest /\ PlanAtRest /\ DirectAtRest /\ ToolsAtRest
    /\ ms_request_id \in FirstRequestIds
    /\ ms_responses = EmptyDict /\ ms_wire = <<>> /\ ms_answered = 0
    /\ ms_pc = [i \in RoundTasks |-> "start"]
    /\ ms_reg = [i \in RoundTasks |-> 0]
    /\ ms_id = [i \in RoundTasks |-> 0]
    /\ ms_completed = [i \in RoundTasks |-> RunTaskCompleted("none", -1)]

NextMcpServer ==
    \/ \E i \in RoundTasks : McpNextIdLoad(i)
    \/ \E i \in RoundTasks : McpNextIdStore(i)
    \/ \E i \in RoundTasks : McpSendRaw(i)
    \/ McpReaderStore
    \/ \E i \in RoundTasks : McpPoll(i)
    \/ \E i \in RoundTasks : McpTimeout(i)

SpecMcpServer == InitMcpServer /\ [][NextMcpServer]_vars

\* Properties of the scheduler.

\* The plan of the specification's scenario: coder task 0, reviewer task 1
\* depending on task 0.
ScenarioPlan ==
    /\ NumTasks = 2
    /\ tasks[0] = [worker_role |-> "coder", depends_on |-> {}]
    /\ tasks[1] = [worker_role |-> "reviewer", depends_on |-> {0}]

\* The tasks handed to a worker and not yet answered, each with the context
\* handed with it: the arguments of the live _run_task threads, and the
\* task_assign messages in the inboxes and in the workers' hands.
McpAssigned == {[idx |-> i, ctx |-> running[i].c] : i \in DOMAIN running}
QueueAssigned ==
    UNION {{[idx |-> MsgIndex(inbox[r][k]), ctx |-> inbox[r][k].context] :
               k \in 1 .. Len(inbox[r])} : r \in Roles}
    \cup {[idx |-> MsgIndex(wmsg[r]), ctx |-> wmsg[r].context] :
               r \in {x \in Roles : wstate[x] = "busy"}}
Assigned == McpAssigned \cup QueueAssigned
AssignedIdx == {a.idx : a \in Assigned}

\* C1: in both transports a task is in a worker's hands only if every index
\* in its depends_on has an entry in completed; none of its dependencies is
\* still pending or in flight.
C1_DispatchAfterDeps ==
    \A a \in Assigned : \A d \in DependsOn(a.idx) :
        /\ d \in DOMAIN completed
        /\ d \notin pending
        /\ d \notin AssignedIdx

\* C1 witness: in the scenario plan task 1 is in the reviewer's hands after
\* task 0 has completed.
C1_Witness ==
    /\ ScenarioPlan
    /\ 1 \in AssignedIdx
    /\ 0 \in DOMAIN completed

\* C2: the context handed with a task holds, for each dependency d, the key
\* result_from_{role of d}_task_{d}, and its value is the result text
\* recorded for task d.
C2_ContextHoldsDepResults ==
    \A a \in Assigned : \A d \in DependsOn(a.idx) :
        LET key == "result_from_" \o tasks[d].worker_role \o "_task_" \o ToString(d)
        IN  /\ d \in DOMAIN completed
            /\ key \in DOMAIN a.ctx
            /\ a.ctx[key] = completed[d].result

\* C2 witness: in the scenario plan the reviewer holds task 1 with
\* result_from_coder_task_0 equal to task 0's reply text.
C2_Witness ==
    /\ ScenarioPlan
    /\ \E a \in Assigned :
          /\ a.idx = 1
          /\ a.ctx["result_from_coder_task_0"] = ReplyText(0)
          /\ completed[0] = [status |-> "success", result |-> ReplyText(0)]

\* C3: for every plan the scheduler reaches its return, and every task that
\* never became ready (still in pending then) is reported skipped.
C3_TerminatesWithSkipped ==
    /\ <>(pc = "done")
    /\ [](pc = "done" =>
            \A i \in pending : results[i].status = "skipped")

\* C3 witness: the queue scheduler has returned for a plan whose task 0
\* depends on itself and whose task 1 depends on the out-of-range index 2.
C3_Witness ==
    /\ transport = "queue" /\ pc = "done"
    /\ NumTasks = 2
    /\ DependsOn(0) = {0} /\ DependsOn(1) = {2}
    /\ results[0].status = "skipped" /\ results[1].status = "skipped"

C5_ResultsInTaskOrder ==
    pc = "done" =>
        /\ DOMAIN results = Indices(NumTasks)
        /\ \A i \in DOMAIN results :
              /\ results[i].index = i
              /\ results[i].status \in {"success", "error", "skipped"}

\* C5 witness: a returned list of two records, one success and one error.
C5_Witness ==
    /\ pc = "done" /\ NumTasks = 2
    /\ results[0].status = "success" /\ results[1].status = "error"


--------------------------------------------------------------------------
\* Properties of the session pool.

\* The clients whose subprocess is running: started and never stopped.
Running == {c \in started : stops[c] = 0}
\* The clients in the pool.
Pooled == {poolClients[k] : k \in DOMAIN poolClients}
\* The clients that an acquire in progress has started and not yet handed over.
InHand == {clocal[t] : t \in {u \in Callers : cpc[u] = "install"}}
\* The references callers hold.
Holds == SumOver([t \in Callers |-> Len(held[t])], Callers)
AllIdle == \A t \in Callers : cpc[t] = "idle"
Solo(t) == \A u \in Callers \ {t} : calls[u] = <<>> /\ cpc[u] = "idle"
ThreeAcquires == <<"acquire", "acquire", "acquire">>
ThreeReleases == <<"release", "release", "release">>

C7_FourthReleaseNoOp ==
    \A t \in Callers : Solo(t) =>
        /\ calls[t] = ThreeAcquires \o <<"release", "release">> =>
              Cardinality(started) = 1 /\ Running = started
        /\ calls[t] \in {ThreeAcquires \o ThreeReleases,
                         ThreeAcquires \o ThreeReleases \o <<"release">>} =>
              /\ Cardinality(started) = 1
              /\ \A c \in started : stops[c] = 1
              /\ poolClients = EmptyDict /\ poolRefcounts = EmptyDict
C7_Witness ==
    \E t \in Callers :
        /\ Solo(t) /\ calls[t] = ThreeAcquires \o ThreeReleases \o <<"release">>
        /\ poolClients = EmptyDict /\ poolRefcounts = EmptyDict
        /\ \A c \in started : stops[c] = 2

\* C8: when the callers' first acquires of the workspace race, all of them
\* return the same client, the refcount is the number of callers, every
\* client a loser started is stopped and one client is running.
C8_RaceReturnsOneClient ==
    LET done == {t \in Callers : calls[t] = <<"acquire">>}
    IN  (AllIdle /\ done # {} /\ \A t \in Callers \ done : calls[t] = <<>>) =>
            /\ Workspace \in DOMAIN poolClients
            /\ \A t \in done : returned[t].client = poolClients[Workspace]
            /\ poolRefcounts[Workspace] = Cardinality(done)
            /\ Running = {poolClients[Workspace]}
            /\ \A c \in started \ Running : stops[c] = 1
C8_Witness ==
    /\ AllIdle /\ \A t \in Callers : calls[t] = <<"acquire">>
    /\ Cardinality(started) = NumCallers
    /\ Cardinality(Running) = 1
    /\ poolRefcounts[Workspace] = NumCallers

\* C9: a client that acquire(agent_mode=true) returned has had the agent-mode
\* preparation done, and no client has it done twice.
C9_AgentModePrepared ==
    /\ \A t \in Callers :
          (returned[t].client # NoClient /\ returned[t].agent_mode)
              => preps[returned[t].client] >= 1
    /\ \A c \in started : preps[c] <= 1
C9_Witness ==
    \E t \in Callers :
        /\ returned[t].agent_mode /\ returned[t].client # NoClient
        /\ preps[returned[t].client] = 0
        /\ Cardinality(started) = 2 /\ extra = 0


--------------------------------------------------------------------------
\* Properties of the request ids of one client.

\* C10: no two requests written to the server by one CopilotClient carry the
\* same id, whatever threads call send_request.
C10_RequestIdsDistinct ==
    \A i, j \in DOMAIN wire : i # j => wire[i] # wire[j]
C10_Witness ==
    /\ Len(wire) = 2 /\ wire[1] = wire[2]
    /\ \E t \in Senders : spc[t] = "waiting" /\ smsg[t] = wire[1]
    /\ Cardinality({t \in Senders : smsg[t] = wire[1]}) = 2


--------------------------------------------------------------------------
\* Properties of the document versions of one client.

\* The notifications sent for one uri, in order.
NotifsOf(uri) == SelectSeq(notifs, LAMBDA n : n.uri = uri)

\* C11: for each uri the first notification is didOpen with version 1 and
\* every later notification has a version greater than all sent before it.
C11_VersionsIncrease ==
    \A uri \in Uris :
        LET ns == NotifsOf(uri)
        IN  /\ ns # <<>> => ns[1] = DidOpen(uri, 1)
            /\ \A i, j \in DOMAIN ns : i < j => ns[i].version < ns[j].version
C11_Witness ==
    LET ns == NotifsOf("file:///ws/a.py")
    IN  /\ Len(ns) = 3
        /\ ns[2] = DidChange("file:///ws/a.py", 2)
        /\ ns[3] = DidOpen("file:///ws/a.py", 1)
        /\ doc_versions["file:///ws/a.py"] = 1

--------------------------------------------------------------------------
\* Properties of the writes to stdin and of the server-request handler.

\* C12: every frame written to the stdin of a subprocess is written by a
\* calling thread, never by the reader thread or the server-request handler
\* thread (each write call being one step, frames are never interleaved).
C12_OnlyCallersWrite ==
    /\ \A i \in DOMAIN stdin : stdin[i].thread = CallerThread
    /\ \A i \in DOMAIN mcp_stdin : mcp_stdin[i].thread = CallerThread
C12_Witness ==
    /\ \E i \in DOMAIN stdin : stdin[i].thread = HandlerThread
    /\ \E i \in DOMAIN stdin : stdin[i].thread = CallerThread
    /\ \E i \in DOMAIN mcp_stdin : mcp_stdin[i].thread = ReaderThread

\* The responses written to stdin, in order.
ResponsesSent == SelectSeq(stdin, LAMBDA f : f.id # 0)

\* C15: once the handler has nothing left in hand (no pending request, no
\* request of a batch left), every server request received has exactly one
\* response carrying its id, whatever its tool did, and the responses are
\* in arrival order.
C15_EveryRequestAnswered ==
    /\ \A i, j \in DOMAIN ResponsesSent :
            i < j => ResponsesSent[i].id < ResponsesSent[j].id
    /\ (pending_server_requests = <<>> /\ hreqs = <<>>) =>
            \A k \in DOMAIN received :
                Cardinality({i \in DOMAIN ResponsesSent : ResponsesSent[i].id = received[k].id}) = 1
C15_Witness ==
    /\ Len(received) = 3
    /\ received[1].tool = "returns"
    /\ received[2].tool = "raises_other"
    /\ received[3].method = "conversation/invokeClientToolConfirmation"
    /\ hpc = "dead"
    /\ Len(ResponsesSent) = 1
    /\ pending_server_requests = <<>>

--------------------------------------------------------------------------
\* Properties of send_request when the server exits or does not answer.

\* C13: a send_request call that ends after the child process has exited
\* (it was waiting when the child exited, or exited while it waited) does
\* not end with the timeout error.
C13_WaitersFailWithTransportClosed ==
    \A t \in Senders : \A i \in DOMAIN sgot[t] :
        ~sgot[t][i].running => sgot[t][i].got # TimeoutError
C13_Witness ==
    \E t \in Senders :
        /\ Len(sgot[t]) = 1
        /\ sgot[t][1] = [own |-> 1, got |-> TimeoutError, running |-> FALSE]
        /\ wire = <<1>> /\ answered = 0 /\ responses = EmptyDict

\* C14: timeouts leave the session running; the response to a request that
\* timed out is never returned to a different request, and a call that
\* follows a timed-out call of the same thread returns the response to its
\* own request (or times out).
C14_TimeoutLeavesSessionUsable ==
    /\ alive
    /\ \A t, u \in Senders : \A i \in DOMAIN sgot[t] : \A j \in DOMAIN sgot[u] :
            (sgot[t][i].got = TimeoutError /\ sgot[u][j].got = sgot[t][i].own)
                => (u = t /\ j = i)
    /\ \A t \in Senders : \A i, j \in DOMAIN sgot[t] :
            (i < j /\ sgot[t][i].got = TimeoutError)
                => sgot[t][j].got \in {sgot[t][j].own, TimeoutError}
C14_Witness ==
    \E t, u \in Senders :
        /\ t # u
        /\ Len(sgot[t]) >= 1 /\ sgot[t][1] = [own |-> 1, got |-> TimeoutError, running |-> TRUE]
        /\ Len(sgot[u]) >= 1 /\ sgot[u][1] = [own |-> 2, got |-> 1, running |-> TRUE]

--------------------------------------------------------------------------
\* Properties of the progress collection.

\* The updates of a sequence that come before its first end record.
RECURSIVE BeforeEnd(_)
BeforeEnd(updates) ==
    IF updates = <<>> \/ Head(updates).kind = "end" THEN <<>>
    ELSE <<Head(updates)>> \o BeforeEnd(Tail(updates))

\* The fragments of a sequence of updates, concatenated in order.
RECURSIVE Concat(_)
Concat(updates) ==
    IF updates = <<>> THEN "" ELSE Fragments(Head(updates)) \o Concat(Tail(updates))

\* C16: the updates handed to the collector and those still in the token's
\* list are, in order, the updates the reader received for the token; and the
\* reply text returned is the concatenation, in arrival order, of the
\* fragments of the updates received before the end record.
C16_ReplyIsArrivalOrderConcat ==
    /\ \E n \in 0 .. Len(arrived[work_done_token]) :
            /\ SubSeq(arrived[work_done_token], n + 1, Len(arrived[work_done_token]))
                    = progress[work_done_token]
            /\ ~is_done => reply_parts = Concat(SubSeq(arrived[work_done_token], 1, n))
    /\ kpc = "returned" => reply_parts = Concat(BeforeEnd(arrived[work_done_token]))
C16_Witness ==
    /\ kpc = "returned"
    /\ reply_parts = "ba"
    /\ arrived[work_done_token] = <<Update("report", "", "b"), Update("report", "a", ""),
                                    Update("end", "", "")>>
    /\ now = 2

\* C17: the collection ends; it returns only after the end record of its
\* token was received and met, it raises the inactivity error only when no
\* update was handed to it for the inactivity limit, and the timeout error
\* only when the total timeout has elapsed.
C17_CollectionTerminates ==
    /\ <>(kpc \in {"returned", "inactivity_error", "timeout_error"})
    /\ [](kpc = "returned" =>
            /\ is_done
            /\ \E i \in DOMAIN arrived[work_done_token] :
                    arrived[work_done_token][i].kind = "end")
    /\ [](kpc = "inactivity_error" => ~is_done /\ now - last_activity >= inactivity_limit)
    /\ [](kpc = "timeout_error" => ~is_done /\ now >= timeout)
C17_Witness ==
    /\ kpc = "inactivity_error"
    /\ timeout = 3000 /\ now < timeout
    /\ arrived[work_done_token] = <<Update("report", "a", "")>>
    /\ reply_parts = "a"

\* C18: the inactivity timeout fires when 60 s or more have passed since the
\* last update at the check of an iteration, and not when less has passed:
\* the loop goes on only if less than 60 s have passed.
C18_InactivityFiresAtSixty ==
    /\ (kpc = "loop" /\ ~is_done) => now - last_activity < inactivity_limit
    /\ kpc = "inactivity_error" => now - last_activity >= inactivity_limit
C18_Witness ==
    /\ timeout = 3000
    /\ kpc = "poll"
    /\ last_activity = 600 /\ now = 1800
    /\ arrived[work_done_token] = <<Update("report", "a", "")>>

--------------------------------------------------------------------------
\* Properties of the framings.

\* The well-formed frames of a sequence of written items.
WellFormed(items) == SelectSeq(items, LAMBDA item : item # Malformed)

\* C19: when all frames written are encodings of messages, the messages
\* routed are a prefix of those written, and once every byte written has
\* been read, in chunks of any size, they are exactly the messages written,
\* in order, with an empty buffer; for both codecs.
C19_DecodeInvertsEncode ==
    WellFormed(input) = input =>
        /\ reader = "running"
        /\ Len(routed) <= Len(input) /\ routed = SubSeq(input, 1, Len(routed))
        /\ pipe = <<>> => (routed = input /\ buffer = <<>>)
C19_Witness ==
    /\ codec = "content-length"
    /\ input = <<[id |-> 1, result |-> <<"BS", "n">>], [id |-> 1, result |-> <<"e_acute">>]>>
    /\ routed = SubSeq(input, 1, 1)
    /\ pipe = <<"QUOTE", "}">>
    /\ Len(buffer) = 49

\* C20: once the reader has no more to read, the messages routed are all the
\* well-formed frames written, in order: a malformed frame is dropped alone
\* and the frames after it are decoded; for both codecs.
C20_MalformedFrameDropped ==
    /\ Len(routed) <= Len(WellFormed(input))
    /\ routed = SubSeq(WellFormed(input), 1, Len(routed))
    /\ (pipe = <<>> \/ reader = "dead") => routed = WellFormed(input)
C20_Witness ==
    /\ codec = "content-length"
    /\ input = <<Malformed, [id |-> 1, result |-> <<"a">>]>>
    /\ reader = "dead"
    /\ routed = <<>>
    /\ pipe = <<>>
    /\ buffer = EncodeMessage([id |-> 1, result |-> <<"a">>])

--------------------------------------------------------------------------
\* Properties of the MCP tools.

\* C21: distinct (server, tool) pairs have distinct prefixed names, the tool
\* map has one entry per pair, resolving its prefixed name to it, and no two
\* tools registered with the session have the same name.
C21_PrefixedNamesUnique ==
    LET pairs == PairsOf(servers)
    IN  /\ \A i, j \in DOMAIN pairs :
                pairs[i] # pairs[j] =>
                    Prefixed(pairs[i][1], pairs[i][2]) # Prefixed(pairs[j][1], pairs[j][2])
        /\ \A i \in DOMAIN pairs :
                tool_map # EmptyDict =>
                    tool_map[Prefixed(pairs[i][1], pairs[i][2])] = pairs[i]
        /\ \A i, j \in DOMAIN registered : i # j => registered[i] # registered[j]
C21_Witness ==
    /\ Len(servers) = 2
    /\ servers[1] = [name |-> "git", tools |-> <<"hub_search">>]
    /\ servers[2] = [name |-> "git_hub", tools |-> <<"search">>]
    /\ DOMAIN tool_map = {"mcp_git_hub_search"}
    /\ tool_map["mcp_git_hub_search"] = <<"git_hub", "search">>
    /\ registered = <<"read_file", "grep_search", "mcp_git_hub_search", "mcp_git_hub_search">>

\* C22: sanitising a sanitised schema changes nothing: the schema sent by a
\* second pass of get_tool_schemas over a tool equals the one sent by the first.
C22_SanitizeIdempotent ==
    Len(sanitized) = 2 => sanitized[2] = sanitized[1]

C22_Witness ==
    /\ Len(sanitized) = 2
    /\ sanitized[1] = [type |-> TStr("string"), required |-> <<>>,
                       anyOf |-> <<[type |-> TStr("integer")],
                                   [type |-> TStr("null")]>>]
    /\ sanitized[2] = [type |-> TStr("integer"), required |-> <<>>]

\* The shape conversation/invokeClientTool expects: [resultObj, null], the
\* resultObj with a content list of {value} items and a status.
IsToolResponse(r) ==
    /\ r.kind = "list" /\ Len(r.list) = 2
    /\ r.list[2] = PyNone
    /\ r.list[1].kind = "dict"
    /\ DOMAIN r.list[1].dict = {"content", "status"}
    /\ r.list[1].dict["status"] \in {PyString("success"), PyString("error")}
    /\ LET content == r.list[1].dict["content"]
       IN  /\ content.kind = "list"
           /\ \A i \in DOMAIN content.list :
                  content.list[i].kind = "dict" /\ DOMAIN content.list[i].dict = {"value"}

\* C23: every response to conversation/invokeClientTool is [resultObj, null]
\* with a content list of {value} items and status success or error, for MCP
\* tools, local tools returning a list, a dict or a string, unknown tools and
\* raising tools.
C23_ToolResponseShape ==
    \A i \in DOMAIN tool_responses : IsToolResponse(tool_responses[i])

C23_Witness ==
    /\ Len(tool_responses) = 2
    /\ tool_responses[1] = Success(<<PyDict([value |-> PyString("Error: Unknown tool: nope")])>>)
    /\ tool_responses[2] = PyList(<<PyDict([content |-> PyList(<<PyDict([value |-> PyString("failed")])>>),
                                            status |-> PyString("error")]), PyNone>>)

\* The fields of the schema that are required.
RequiredFields(schema) == {f \in SchemaFields(schema) : DefOf(schema, f).required}

\* C24: for every dict candidate and every schema, soft_validate partitions
\* the candidate's keys: the schema fields are in parsed, every other key is
\* in extras with its value unchanged, no key is in both, and missing lists
\* exactly the required schema fields absent from the candidate.
C24_KeysPartitioned ==
    vpc # "start" =>
        LET data == candidate.dict
            fields == SchemaFields(answer_schema)
        IN  /\ validation.raised = ""
            /\ DOMAIN validation.parsed = DOMAIN data \cap fields
            /\ DOMAIN validation.extras = DOMAIN data \ fields
            /\ \A k \in DOMAIN validation.extras : validation.extras[k] = data[k]
            /\ DOMAIN validation.parsed \cap DOMAIN validation.extras = {}
            /\ {validation.missing[i] : i \in DOMAIN validation.missing}
                  = RequiredFields(answer_schema) \ DOMAIN data

C24_Witness ==
    /\ vpc = "validated"
    /\ candidate = PyDict([count |-> PyString(<<"3">>), other |-> PyFloat(37)])
    /\ Len(answer_schema) = 2 /\ answer_schema[2] = <<"flag", FieldDef("boolean", TRUE)>>
    /\ validation.parsed = [count |-> PyFloat(30)]
    /\ validation.extras = [other |-> PyFloat(37)]
    /\ validation.missing = <<"flag">>

\* C25: for every candidate whose keys include all required fields of the
\* schema, validating it, building the answer from the result and validating
\* the answer again gives missing = [] and the same parsed values.
C25_RoundTripKeepsParsed ==
    (vpc = "revalidated" /\ RequiredFields(answer_schema) \subseteq DOMAIN candidate.dict) =>
        /\ revalidation.raised = ""
        /\ revalidation.missing = <<>>
        /\ revalidation.parsed = validation.parsed

C25_Witness ==
    /\ vpc = "revalidated"
    /\ candidate = PyDict([_validation |-> PyInt(3), count |-> PyString(<<"3">>)])
    /\ validation.parsed = [_validation |-> PyInt(3), count |-> PyInt(3)]
    /\ validation.missing = <<>>
    /\ revalidation.missing = <<>>
    /\ revalidation.parsed = [_validation |-> PyDict([missing |-> <<>>,
                                  warnings |-> <<[field |-> "count", coerced |-> "str", to |-> "integer"]>>]),
                              count |-> PyInt(3)]

\* C26: for every JSON object and each of the four reply formats (bare JSON,
\* json-fenced block, generic fenced block, object embedded in prose),
\* _extract_json_from_reply returns an object equal to it; a reply from which
\* no mode parses anything gives null.
C26_ExtractInvertsFormat ==
    /\ reply_format \in ReplyFormats => (extracted.found /\ extracted.v = reply_obj)
    /\ reply_format = "plain" => ~extracted.found

C26_Witness ==
    /\ reply_format = "prose"
    /\ reply_obj = PyDict([a |-> PyString(<<"}">>)])
    /\ reply_text = <<"I", "t", " ", "i", "s", " ", "{", "QUOTE", "a", "QUOTE", ":", " ",
                 "QUOTE", "}", "QUOTE", "}", " ", "o", "k", ".">>
    /\ extracted = NotExtracted

\* C27: schema validation is never fatal: when the worker has an answer
\* schema and the conversation call succeeds, execute_task returns status
\* success for every reply text.
C27_ValidationNeverFatal ==
    \A i \in DOMAIN task_log :
        (worker_kind = "mcp" /\ card.answer_schema # <<>> /\ task_log[i].outcome = "ok")
            => task_log[i].response["status"] = "success"

C27_Witness ==
    /\ worker_kind = "mcp"
    /\ Len(card.answer_schema) = 2 /\ card.answer_schema[1] = <<"count", FieldDef("integer", TRUE)>>
    /\ Len(task_log) = 1
    /\ task_log[1].outcome = "ok"
    /\ task_log[1].response["status"] = "success"
    /\ "validation_warnings" \in DOMAIN task_log[1].response
    /\ task_log[1].response["structured_reply"] = [count |-> PyInt(3)]

\* C30: for both kinds of worker, over any sequence of tasks of one worker,
\* the system instructions are in the prompt of the first turn only.
HasPreamble(parts) == \E j \in DOMAIN parts : parts[j] = "system_instructions"

C30_PreambleFirstTurnOnly ==
    \A i \in DOMAIN task_log : i > 1 => ~HasPreamble(task_log[i].parts)

C30_Witness ==
    /\ worker_kind = "queue" /\ card.system_prompt
    /\ Len(task_log) = 2
    /\ task_log[1].outcome = "ok" /\ task_log[2].outcome = "ok"
    /\ HasPreamble(task_log[1].parts) /\ HasPreamble(task_log[2].parts)
    /\ conversation_id = 1

\* ---------------------------------------------------------------------------
\* Properties of the LSP bridge.
\* ---------------------------------------------------------------------------
\* The conditions under which an operation of the bridge degrades.
FailureConditions ==
    {"no_server_configured", "not_on_path", "start_fails", "server_died", "timed_out"}

\* The value an operation gives when it degrades: None for get_server, None or
\* the position of the text search for find_symbol_position, a list for
\* get_diagnostics (what was published before), [] and "" for the others.
Sentinel(call) ==
    CASE call.op = "get_server" -> call.value.kind = "none"
      [] call.op = "find_symbol_position" ->
            call.value.kind = "none" \/ (call.value.kind = "tuple" /\ call.value.path = FilePath)
      [] call.op = "get_diagnostics" -> call.value.kind = "list"
      [] call.op = "hover" -> call.value.kind = "str" /\ call.value.str = ""
      [] OTHER -> call.value.kind = "list" /\ call.value.list = <<>>

\* C29: every operation of the LSP bridge (get_server, get_diagnostics,
\* find_references, workspace_symbol, hover, find_symbol_position) returns a
\* sentinel and never raises when no server is configured for the language,
\* the command is not on the path, the server fails to start, the server
\* process has died or the call times out.
C29_DegradesToSentinel ==
    \A i \in 1 .. Len(lsp_calls) :
        lsp_calls[i].cond \in FailureConditions
            => lsp_calls[i].value.kind # "raise" /\ Sentinel(lsp_calls[i])

\* C29, the part that holds: no operation raises under these conditions.
C29_NeverRaises ==
    \A i \in 1 .. Len(lsp_calls) :
        lsp_calls[i].cond \in FailureConditions => lsp_calls[i].value.kind # "raise"

\* C29: get_server ran while the command of the language exits at once.
C29_Witness ==
    \E i \in 1 .. Len(lsp_calls) :
        /\ lsp_calls[i].op = "get_server" /\ lsp_calls[i].cond = "start_fails"
        /\ lsp_env[lsp_calls[i].lang] = "exits"

\* ---------------------------------------------------------------------------
\* Properties of Orchestrator.run.
\* ---------------------------------------------------------------------------
\* C28: Orchestrator.run always returns a dict {tasks, results, summary} and
\* never raises: a worker failure, a failure of the summary generation and the
\* death of the upstream subprocess while planning, dispatching or summarising
\* are reported as data.
C28_RunAlwaysReturns ==
    /\ run_pc # "raised"
    /\ run_pc = "returned" => run_result.kind = "dict"

\* C28: the upstream subprocess has exited and the planning call has been made.
C28_Witness ==
    upstream = "exited" /\ run_pc = "raised" /\ run_result = Raise("BrokenPipeError")

\* ---------------------------------------------------------------------------
\* Properties of dispatched tasks.
\* ---------------------------------------------------------------------------
\* The tasks the scheduler has dispatched: taken out of pending by a round.
Dispatched == DOMAIN tasks \ pending

\* C40: a task the scheduler dispatched is never reported as skipped: in the
\* returned list it has status success or error, also when its worker failed
\* to start or to initialise and when no answer came within the 300 seconds.
C40_DispatchedNeverSkipped ==
    pc = "done" =>
        \A i \in Dispatched : results[i].status \in {"success", "error"}

\* C40: the queue scheduler has returned, task 0 was dispatched to a worker
\* whose _init_client failed, and no answer for it came.
C40_Witness ==
    /\ transport = "queue" /\ pc = "done"
    /\ 0 \in Dispatched /\ 0 \notin DOMAIN completed
    /\ wstate[tasks[0].worker_role] = "dead"

\* ---------------------------------------------------------------------------
\* Properties of the queue worker.
\* ---------------------------------------------------------------------------
\* The positions in the outbox of the messages of one type for a task id.
QwPosted(type, task_id) ==
    {k \in 1 .. Len(qw_outbox) : qw_outbox[k].type = type /\ qw_outbox[k].task_id = task_id}

\* The positions in qw_taken of the task_assign messages.
QwTakenTasks == {k \in 1 .. Len(qw_taken) : qw_taken[k].type = MSG_TASK_ASSIGN}

\* C31: a QueueWorker handles one task at a time; for every task_assign it
\* takes it posts exactly one task_result, after all task_progress messages of
\* that task, whether the conversation call succeeds or raises; after taking
\* a shutdown message it takes no further message and releases its session.
C31_OneResultPerTask ==
    /\ \A k \in QwTakenTasks :
          LET id == qw_taken[k].task_id
              posted == QwPosted(MSG_TASK_RESULT, id)
              inHand == qw_pc = "task" /\ qw_msg.task_id = id
          IN  /\ Cardinality(posted) = (IF inHand THEN 0 ELSE 1)
              /\ inHand => k = Len(qw_taken)
              /\ \A p \in QwPosted(MSG_TASK_PROGRESS, id) : \A q \in posted : p < q
    /\ \A k \in 1 .. Len(qw_taken) :
          qw_taken[k].type = MSG_SHUTDOWN
              => k = Len(qw_taken) /\ qw_pc = "exited" /\ qw_session = "released"

\* C31: the worker took a task whose call raised after a progress message,
\* then the shutdown message.
C31_Witness ==
    /\ Len(qw_taken) = 2 /\ qw_taken[2].type = MSG_SHUTDOWN
    /\ qw_outbox = <<QwMsg(MSG_TASK_PROGRESS, TaskId(0), ""),
                     QwMsg(MSG_TASK_RESULT, TaskId(0), "error")>>
    /\ qw_session = "released"

\* ---------------------------------------------------------------------------
\* Properties of the validation of the plan.
\* ---------------------------------------------------------------------------
\* A task of a returned plan as the scheduler reads it.
WellFormedTask(t) ==
    /\ t.dict["worker_role"].kind = "str" /\ t.dict["worker_role"].str \in Roles
    /\ t.dict["task"].kind = "str"
    /\ t.dict["depends_on"].kind = "list"

\* C32: every task of the plan _plan_tasks returns has a worker_role among
\* the configured roles, a task text and a depends_on list; and when what was
\* extracted from the reply is no JSON array, the plan is exactly the one
\* fallback task [first worker, goal, no dependencies] and nothing is raised.
C32_PlanWellFormed ==
    plan_pc # "parsed" =>
        /\ plan_validated.kind = "list" =>
              \A k \in 1 .. Len(plan_validated.list) :
                  WellFormedTask(plan_validated.list[k])
        /\ plan_parsed.kind # "list" => plan_validated = PyList(<<FallbackTask>>)

\* C32: the reply was the JSON number 5 and _plan_tasks raised.
C32_Witness ==
    /\ plan_parsed = PyInt(5)
    /\ plan_pc = "raised" /\ plan_validated = Raise("TypeError")

\* C32, the part that holds: text that is no JSON gives the fallback plan,
\* and the roles of a returned plan are configured roles.
C32_FallbackOnDecodeError ==
    plan_pc # "parsed" =>
        /\ plan_parsed.kind = "raise" => plan_validated = PyList(<<FallbackTask>>)
        /\ plan_validated.kind = "list" =>
              \A k \in 1 .. Len(plan_validated.list) :
                  /\ plan_validated.list[k].dict["worker_role"].kind = "str"
                  /\ plan_validated.list[k].dict["worker_role"].str \in Roles

\* ---------------------------------------------------------------------------
\* Properties of the response store.
\* ---------------------------------------------------------------------------
\* The ids of the requests whose send_request call is waiting for a response.
Outstanding == {smsg[t] : t \in {x \in Senders : spc[x] = "waiting"}}

\* C33: _responses only holds ids of requests that are still outstanding; a
\* response whose id no pending request awaits is discarded, not stored.
C33_OnlyOutstandingStored == DOMAIN responses \subseteq Outstanding

\* C33: a send_request call ended with TimeoutError, the response to the
\* request it wrote arrived afterwards and is in _responses, awaited by nobody.
C33_Witness ==
    \E t \in Senders : \E k \in 1 .. Len(sgot[t]) :
        /\ sgot[t][k].got = TimeoutError /\ sgot[t][k].own > 0
        /\ wire[sgot[t][k].own] \in DOMAIN responses
        /\ wire[sgot[t][k].own] \notin Outstanding

\* ---------------------------------------------------------------------------
\* Properties of the scheduler for four independent tasks.
\* ---------------------------------------------------------------------------
\* The tasks the first round has handed to a worker or answered itself with
\* the no-worker error.
FirstRoundTaken == AssignedIdx \cup DOMAIN completed

\* Where the scheduler is with the four tasks: all pending before the first
\* round, none pending after it; never waiting on the result channel for an
\* empty ready set, never out of `while pending` with a task still pending.
NoEmptyReadyBranch ==
    /\ pc # "wait"
    /\ pc \in {"build", "done"} => pending = {}
    /\ \/ pc = "loop" /\ pending = DOMAIN tasks /\ FirstRoundTaken = {}
       \/ pending = {}

\* The round that takes tasks off pending hands every task of the plan to a
\* worker, or answers it with the no-worker error.
FirstRoundTakesAll ==
    pending' # pending => pending' = {} /\ FirstRoundTaken' = DOMAIN tasks

\* C34: for a plan of exactly four tasks with no unmet dependency the
\* scheduler of either transport takes all four in its first round, and never
\* enters the branch for an empty ready set: it never waits on the result
\* channel and never leaves `while pending` with a task still pending.
C34_FourInOneRound == []NoEmptyReadyBranch /\ [][FirstRoundTakesAll]_vars

\* C34: the first round of a four-task plan is over in queue transport, the
\* four task_assign messages are in the inboxes, nothing is pending.
C34_Witness ==
    /\ NumTasks = 4 /\ transport = "queue" /\ pc = "collect"
    /\ pending = {} /\ AssignedIdx = DOMAIN tasks
    /\ completed = EmptyDict

\* C34: the same in MCP transport with a worker for every role: four threads.
C34_WitnessMcp ==
    /\ NumTasks = 4 /\ transport = "mcp" /\ pc = "join"
    /\ pending = {} /\ DOMAIN running = DOMAIN tasks

\* ---------------------------------------------------------------------------
\* Properties of release_client on a client that is not pooled.
\* ---------------------------------------------------------------------------
\* What release(client) does in a step for a client made with shared=False.
ReleaseOfUnpooled(t) ==
    /\ unpooled[t] # NoClient /\ unpooled'[t] = NoClient
    /\ directReleased' = directReleased \cup {unpooled[t]}

\* C35: SessionPool.release with a client that is not the pooled client of
\* its workspace stops only that client, and changes neither the refcount nor
\* the pool entry of the pooled client.
C35_ReleaseLeavesPool ==
    [][\A t \in Callers :
          ReleaseOfUnpooled(t) =>
              /\ poolClients' = poolClients
              /\ poolRefcounts' = poolRefcounts
              /\ stops' = StopClient(stops, unpooled[t])]_vars

\* C35: a caller still holds the pooled client, which was not stopped, and
\* the pool has no entry for the workspace after the release of a client
\* made with shared=False.
C35_Witness ==
    /\ directReleased # {}
    /\ Workspace \notin DOMAIN poolClients
    /\ \E t \in Callers : \E i \in 1 .. Len(held[t]) :
          /\ held[t][i] \notin directReleased
          /\ stops[held[t][i]] = 0

\* C35, the part that holds: the client given to release is stopped when the
\* workspace has no pooled client, and in no case is another client stopped.
C35_UnpooledWorkspace ==
    [][\A t \in Callers :
          ReleaseOfUnpooled(t) =>
              /\ Workspace \notin DOMAIN poolRefcounts
                    => stops' = StopClient(stops, unpooled[t])
              /\ \A c \in DOMAIN stops : c # unpooled[t] => stops'[c] = stops[c]]_vars

\* ---------------------------------------------------------------------------
\* Properties of an acquire that raises.
\* ---------------------------------------------------------------------------
\* A step in which an acquire call of caller t ends by raising.
AcquireRaised(t) == calls'[t] = Append(calls[t], "acquire raised")

\* Every caller is outside acquire and has released what it acquired.
AllReleased == AllIdle /\ Holds = 0

\* C36: when acquire raises, the pool's clients and refcounts are what they
\* were before the call, so that the releases of the successful callers bring
\* the refcount to zero and stop the client.
C36_RaiseLeavesPool ==
    /\ [][\A t \in Callers :
             AcquireRaised(t) =>
                 poolClients' = poolClients /\ poolRefcounts' = poolRefcounts]_vars
    /\ [](AllReleased => Workspace \notin DOMAIN poolClients /\ Pooled \cap Running = {})

\* C36: an agent-mode acquire raised on the cached client; every successful
\* caller has released, and the pool still holds the running client with
\* refcount 1.
C36_Witness ==
    /\ \E t \in Callers : \E k \in 1 .. Len(calls[t]) : calls[t][k] = "acquire raised"
    /\ AllReleased
    /\ Workspace \in DOMAIN poolClients
    /\ poolRefcounts[Workspace] = 1
    /\ stops[poolClients[Workspace]] = 0

\* C36, the part that holds: a first acquisition whose startup raises leaves
\* the pool as it was.
C36_InitRaiseLeavesPool ==
    [][\A t \in Callers :
          AcquireRaised(t) /\ cpc[t] = "init" =>
              poolClients' = poolClients /\ poolRefcounts' = poolRefcounts]_vars

\* ---------------------------------------------------------------------------
\* Properties of the tool restriction of queue workers.
\* ---------------------------------------------------------------------------
\* C37: a worker's tools_enabled restriction applies to that worker only: a
\* worker that is ready has registered the tools its own configuration
\* enables, and its client finds the executor of each of them, whatever the
\* restrictions of the other workers.
C37_RestrictionIsLocal ==
    \A w \in ToolWorkers :
        tw_pc[w] = "ready" =>
            /\ Enabled(w) \subseteq tw_registered[w]
            /\ Enabled(w) \subseteq TOOL_EXECUTORS

\* C37: worker 1 has tools_enabled "__ALL__" and registered read_file only,
\* worker 2 is restricted to read_file; the executor of grep_search is gone.
C37_Witness ==
    /\ tools_enabled[1] = ALL /\ tools_enabled[2] = Only({"read_file"})
    /\ tw_pc[1] = "ready" /\ tw_registered[1] = {"read_file"}
    /\ "grep_search" \notin TOOL_EXECUTORS

DiagnosticsReturned ==
    {k \in 1 .. Len(lsp_calls) :
        lsp_calls[k].op = "get_diagnostics" /\ lsp_calls[k].published_for > 0}

\* C39: get_diagnostics returns only diagnostics the server published after
\* the didOpen or didChange of that same call, never diagnostics cached for an
\* earlier version of the document.
C39_DiagnosticsAreFresh ==
    \A k \in DiagnosticsReturned : lsp_calls[k].published_for = lsp_calls[k].version

\* C39: the second get_diagnostics call sent version 2 of the document and
\* returned the list the server had published for version 1.
C39_Witness ==
    \E k \in DiagnosticsReturned :
        /\ lsp_calls[k].version = 2 /\ lsp_calls[k].published_for = 1
        /\ lsp_calls[k].value = PyList(<<PyDict([message |-> PyString("E501")])>>)

====
